---- MODULE Spec2Model ----
(***************************************************************************)
(* Model of mcp-tasks: the markdown task documents (current, backlog,      *)
(* archive), the task locator, the line mutators, and the start_week,      *)
(* add_task, finish_task, edit_task and move_task tools.                   *)
(*                                                                         *)
(* Spec runs the tools on a workspace, RoundTripSpec runs add_task and     *)
(* move_task three requests deep, CodecSpec calls the mutators directly,   *)
(* ConcurrentSpec has several requests in flight: a handler suspended at   *)
(* its await is kept in `parked` while another request runs.               *)
(*                                                                         *)
(* A string is a sequence of one-character strings.  The text of a file is *)
(* kept as the sequence of its lines, i.e. as content.split('\n'): the     *)
(* empty file is <<"">>, a file ending in a newline has an empty last      *)
(* line.  join('\n') is the inverse of that split, so a document value     *)
(* stands for exactly one file text.                                       *)
(***************************************************************************)
EXTENDS Integers, Sequences, FiniteSets, TLC

VARIABLES current, backlog, archive, clk, pc, req, resp, prev, log, snap, budget, rollovers,
          document, calls, parked

vars == <<current, backlog, archive, clk, pc, req, resp, prev, log, snap, budget, rollovers,
          document, calls, parked>>

(* the workspace and the tool handlers; the markdown mutators called on their own *)
toolVars == <<current, backlog, archive, clk, pc, req, resp, prev, log, snap, budget, rollovers,
              parked>>
codecVars == <<document, calls>>

----------------------------------------------------------------------------
(* Bounds *)

MaxRollovers == 2     \* start_week requests per behaviour
MaxBody == 2          \* lines of the generated This Week content

----------------------------------------------------------------------------
(* String primitives of the JavaScript runtime, as the code uses them *)

IsSpace(c) == c \in {" ", "\t"}

RECURSIVE trimStart(_)
trimStart(s) ==
  IF s = <<>> THEN <<>>
  ELSE IF IsSpace(Head(s)) THEN trimStart(Tail(s)) ELSE s

RECURSIVE trimEnd(_)
trimEnd(s) ==
  IF s = <<>> THEN <<>>
  ELSE IF IsSpace(s[Len(s)]) THEN trimEnd(SubSeq(s, 1, Len(s) - 1)) ELSE s

trim(s) == trimEnd(trimStart(s))

startsWith(s, p) == Len(s) >= Len(p) /\ SubSeq(s, 1, Len(p)) = p

substring(s, from) == SubSeq(s, from + 1, Len(s))

UpperCase == <<"A","B","C","D","E","F","G","H","I","J","K","L","M",
               "N","O","P","Q","R","S","T","U","V","W","X","Y","Z">>
LowerCase == <<"a","b","c","d","e","f","g","h","i","j","k","l","m",
               "n","o","p","q","r","s","t","u","v","w","x","y","z">>

LowerCaseOf ==
  [c \in { UpperCase[i] : i \in 1..Len(UpperCase) } |->
     LowerCase[CHOOSE i \in 1..Len(UpperCase) : UpperCase[i] = c]]

toLowerCaseChar(c) == IF c \in DOMAIN LowerCaseOf THEN LowerCaseOf[c] ELSE c

toLowerCase(s) == [i \in 1..Len(s) |-> toLowerCaseChar(s[i])]

includes(s, p) == \E i \in 0..(Len(s) - Len(p)) : SubSeq(s, i + 1, i + Len(p)) = p

slice(xs, from, to) == SubSeq(xs, from + 1, to)

sliceFrom(xs, from) == SubSeq(xs, from + 1, Len(xs))

(* content.trim() on a whole file text, in terms of its lines: the leading  *)
(* and trailing lines that hold only whitespace go (their newlines are      *)
(* whitespace), then the first line loses its leading and the last line its *)
(* trailing whitespace.                                                     *)
RECURSIVE dropBlankHead(_)
dropBlankHead(d) ==
  IF d = <<>> THEN <<>>
  ELSE IF trim(Head(d)) = <<>> THEN dropBlankHead(Tail(d)) ELSE d

RECURSIVE dropBlankTail(_)
dropBlankTail(d) ==
  IF d = <<>> THEN <<>>
  ELSE IF trim(d[Len(d)]) = <<>> THEN dropBlankTail(SubSeq(d, 1, Len(d) - 1)) ELSE d

trimText(d) ==
  LET b == dropBlankTail(dropBlankHead(d)) IN
  IF b = <<>> THEN << <<>> >>
  ELSE IF Len(b) = 1 THEN << trim(b[1]) >>
  ELSE << trimStart(b[1]) >> \o SubSeq(b, 2, Len(b) - 1) \o << trimEnd(b[Len(b)]) >>

----------------------------------------------------------------------------
(* Status model *)

getStatusChar(status) ==
  CASE status = "completed" -> "x"
    [] status = "closed" -> "-"
    [] OTHER -> " "

MutParseStatusChar(char) ==
  CASE char \in {"x", "X"} -> "completed"
    [] char = "-" -> "closed"
    [] OTHER -> "new"

parseStatusChar(char) ==
  CASE char = "x" -> "completed"
    [] char = "-" -> "closed"
    [] OTHER -> "new"

MutIsFinishedStatus(status) == status = "completed"

isFinishedStatus(status) == status = "completed" \/ status = "closed"

----------------------------------------------------------------------------
(* Document parser *)

NoSection == <<>>

RECURSIVE parseLoop(_, _, _, _)
parseLoop(lines, index, sections, currentSection) ==
  IF index >= Len(lines)
  THEN IF currentSection # NoSection
       THEN Append(sections, [currentSection[1] EXCEPT !.endLine = Len(lines) - 1])
       ELSE sections
  ELSE LET line == lines[index + 1] IN
       IF startsWith(line, <<"#", " ">>)
       THEN parseLoop(lines, index + 1,
                      IF currentSection # NoSection
                      THEN Append(sections, [currentSection[1] EXCEPT !.endLine = index - 1])
                      ELSE sections,
                      << [title |-> trim(substring(line, 2)), content |-> <<>>,
                          startLine |-> index, endLine |-> -1] >>)
       ELSE IF currentSection # NoSection
       THEN parseLoop(lines, index + 1, sections,
                      << [currentSection[1] EXCEPT !.content = Append(@, line)] >>)
       ELSE parseLoop(lines, index + 1, sections, currentSection)

(* the lines before the first header as a section without title *)
MutParseMarkdownSections(content) ==
  parseLoop(content, 0, <<>>,
            << [title |-> <<>>, content |-> <<>>, startLine |-> 0, endLine |-> -1] >>)

parseMarkdownSections(content) == parseLoop(content, 0, <<>>, NoSection)

RECURSIVE getTaskDescriptionLines(_, _)
getTaskDescriptionLines(lines, startIndex) ==
  IF startIndex >= Len(lines) THEN <<>>
  ELSE LET line == lines[startIndex + 1] IN
       IF startsWith(line, <<" ", " ">>) /\ trim(line) # <<>>
       THEN <<line>> \o getTaskDescriptionLines(lines, startIndex + 1)
       ELSE <<>>

MutFindSection(sections, title) ==
  IF \E i \in 1..Len(sections) : toLowerCase(sections[i].title) = toLowerCase(title)
  THEN << sections[CHOOSE i \in 1..Len(sections) :
                      /\ toLowerCase(sections[i].title) = toLowerCase(title)
                      /\ \A j \in 1..(i - 1) :
                           toLowerCase(sections[j].title) # toLowerCase(title)] >>
  ELSE NoSection

(* sections.find(s => s.title === title): the first such section, or NoSection *)
findSection(sections, title) ==
  IF \E i \in 1..Len(sections) : sections[i].title = title
  THEN << sections[CHOOSE i \in 1..Len(sections) :
                      /\ sections[i].title = title
                      /\ \A j \in 1..(i - 1) : sections[j].title # title] >>
  ELSE NoSection

----------------------------------------------------------------------------
(* Task-line shapes: the two regular expressions the code matches lines with *)

(* /^- \[([ x-])\] /  (startWeek.ts, removeTask.ts) *)
matchTaskPrefix(line) ==
  /\ Len(line) >= 6
  /\ line[1] = "-" /\ line[2] = " " /\ line[3] = "["
  /\ line[4] \in {" ", "x", "-"}
  /\ line[5] = "]" /\ line[6] = " "

(* /^- \[([ x-])\] (.+)$/  (taskIdentifier.ts, updateTaskText) *)
matchTaskLine(line) == matchTaskPrefix(line) /\ Len(line) >= 7

NoTask == <<>>

parseTaskLine(line) ==
  IF ~matchTaskLine(line) THEN NoTask
  ELSE << [taskText |-> trim(substring(line, 6)),
           isCompleted |-> (line[4] = "x"),
           isClosed |-> (line[4] = "-")] >>

----------------------------------------------------------------------------
(* Rollover partition *)

RECURSIVE filterLoop(_, _, _, _)
filterLoop(sectionContent, i, finished, unfinished) ==
  IF i >= Len(sectionContent)
  THEN [finished |-> finished, unfinished |-> unfinished]
  ELSE LET line == sectionContent[i + 1] IN
       IF matchTaskPrefix(line)
       THEN LET statusChar == line[4]
                status == parseStatusChar(statusChar)
                descriptionLines == getTaskDescriptionLines(sectionContent, i + 1)
                taskLines == <<line>> \o descriptionLines
            IN IF isFinishedStatus(status)
               THEN filterLoop(sectionContent, i + Len(descriptionLines) + 1,
                               finished \o taskLines, unfinished)
               ELSE filterLoop(sectionContent, i + Len(descriptionLines) + 1,
                               finished, unfinished \o taskLines)
       ELSE IF trim(line) = <<>>
       THEN filterLoop(sectionContent, i + 1, finished,
                       IF Len(unfinished) > 0 THEN Append(unfinished, line) ELSE unfinished)
       ELSE filterLoop(sectionContent, i + 1, finished, unfinished)

(* the unfinished tasks without their description lines *)
MutFilterTasksByCompletion(sectionContent) ==
  [filterLoop(sectionContent, 0, <<>>, <<>>) EXCEPT !.unfinished = SelectSeq(@, matchTaskPrefix)]

filterTasksByCompletion(sectionContent) == filterLoop(sectionContent, 0, <<>>, <<>>)

----------------------------------------------------------------------------
(* Task locator.  The code reads the two files itself; here the file texts  *)
(* are passed in.                                                           *)

RECURSIVE scanContent(_, _, _, _, _)
scanContent(fileName, section, k, lineNumber, tasks) ==
  IF k >= Len(section.content) THEN tasks
  ELSE LET line == section.content[k + 1]
           n == lineNumber + 1
           taskInfo == parseTaskLine(line)
       IN scanContent(fileName, section, k + 1, n,
                      IF taskInfo # NoTask
                      THEN Append(tasks, [file |-> fileName,
                                          section |-> section.title,
                                          taskText |-> taskInfo[1].taskText,
                                          lineNumber |-> n,
                                          isCompleted |-> taskInfo[1].isCompleted,
                                          isClosed |-> taskInfo[1].isClosed])
                      ELSE tasks)

MutHeaderLineNumber(section) == section.startLine

(* `let lineNumber = section.startLine + 1`, the 1-based number of the header *)
headerLineNumber(section) == section.startLine + 1

RECURSIVE scanSections(_, _, _, _)
scanSections(fileName, sections, s, tasks) ==
  IF s > Len(sections) THEN tasks
  ELSE scanSections(fileName, sections, s + 1,
                    scanContent(fileName, sections[s], 0, headerLineNumber(sections[s]), tasks))

findTasksInFile(fileName, content) ==
  scanSections(fileName, parseMarkdownSections(content), 1, <<>>)

findAllTasks(cur, back) ==
  findTasksInFile("current", cur) \o findTasksInFile("backlog", back)

Failure(message, subject, list) ==
  [ok |-> FALSE, value |-> <<>>, message |-> message, subject |-> subject, list |-> list]

Success(value) ==
  [ok |-> TRUE, value |-> value, message |-> "", subject |-> <<>>, list |-> <<>>]

MutTaskMatches(task, identifier) == includes(task.taskText, identifier)

taskMatches(task, identifier) ==
  includes(toLowerCase(task.taskText), toLowerCase(identifier))

findMatchingTasks(identifier, cur, back) ==
  IF trim(identifier) = <<>>
  THEN Failure("Task identifier cannot be empty", <<>>, <<>>)
  ELSE Success(SelectSeq(findAllTasks(cur, back), LAMBDA task : taskMatches(task, identifier)))

MutValidateTaskMatch(identifier, cur, back) ==
  LET found == findMatchingTasks(identifier, cur, back) IN
  IF ~found.ok THEN found
  ELSE IF Len(found.value) = 0
  THEN Failure("No matching tasks found. No tasks available.", identifier, <<>>)
  ELSE Success(found.value[1])

validateTaskMatch(identifier, cur, back) ==
  LET found == findMatchingTasks(identifier, cur, back) IN
  IF ~found.ok THEN found
  ELSE LET matches == found.value IN
       IF Len(matches) = 0
       THEN LET allTasks == findAllTasks(cur, back)
                suggestions == [i \in 1..(IF Len(allTasks) < 3 THEN Len(allTasks) ELSE 3)
                                  |-> allTasks[i].taskText]
            IN Failure(IF suggestions # <<>>
                       THEN "No matching tasks found. Did you mean"
                       ELSE "No matching tasks found. No tasks available.",
                       identifier, suggestions)
       ELSE IF Len(matches) > 1
       THEN Failure("Multiple matches found", identifier,
                    [i \in 1..Len(matches) |-> <<matches[i].taskText, matches[i].section>>])
       ELSE Success(matches[1])

----------------------------------------------------------------------------
(* Line mutators and file operations *)

(* the template literal `- [${status}] ${text}` *)
TaskLineOf(statusChar, text) == <<"-", " ", "[", statusChar, "]", " ">> \o text

(* updateTaskStatus: the replace of /^- \[[ x-]\]/ by "- [c]" *)
updateTaskStatus(content, lineNumber, newStatus) ==
  IF lineNumber < 1 \/ lineNumber > Len(content) \/ content[lineNumber] = <<>>
  THEN Failure("Line not found in content", <<>>, <<>>)
  ELSE LET targetLine == content[lineNumber]
           statusChar == getStatusChar(newStatus)
           updatedLine ==
             IF /\ Len(targetLine) >= 5
                /\ targetLine[1] = "-" /\ targetLine[2] = " " /\ targetLine[3] = "["
                /\ targetLine[4] \in {" ", "x", "-"}
                /\ targetLine[5] = "]"
             THEN <<"-", " ", "[", statusChar, "]">> \o substring(targetLine, 5)
             ELSE targetLine
       IN IF updatedLine = targetLine
          THEN Failure("No task found at line", <<>>, <<>>)
          ELSE Success([content EXCEPT ![lineNumber] = updatedLine])

(* lines.join('\n') read back as lines: joining no line at all gives the empty text *)
join(lines) == IF lines = <<>> THEN << <<>> >> ELSE lines

updateTaskText(content, lineNumber, newText) ==
  IF lineNumber < 1 \/ lineNumber > Len(content) \/ content[lineNumber] = <<>>
  THEN Failure("Line not found in content", <<>>, <<>>)
  ELSE LET targetLine == content[lineNumber] IN
       IF ~matchTaskLine(targetLine)
       THEN Failure("No task found at line", <<>>, <<>>)
       ELSE Success([content EXCEPT ![lineNumber] = TaskLineOf(targetLine[4], newText)])

(* a description is the sequence of its lines; NoDescription stands for null *)
NoDescription == <<>>

(* the description is cleared by null and '' only *)
MutUpdateTaskDescription(content, taskLineNumber, newDescription) ==
  IF taskLineNumber < 1 \/ taskLineNumber > Len(content) \/ content[taskLineNumber] = <<>>
  THEN Failure("Line not found in content", <<>>, <<>>)
  ELSE LET descriptionLines == getTaskDescriptionLines(content, taskLineNumber)
           endLine == taskLineNumber - 1 + Len(descriptionLines)
           head == slice(content, 0, taskLineNumber)
           rest == sliceFrom(content, endLine + 1)
       IN IF newDescription # NoDescription /\ newDescription # << <<>> >>
          THEN Success(join(head
                 \o [i \in 1..Len(newDescription) |-> <<" ", " ">> \o newDescription[i]]
                 \o rest))
          ELSE Success(join(head \o rest))

updateTaskDescription(content, taskLineNumber, newDescription) ==
  IF taskLineNumber < 1 \/ taskLineNumber > Len(content) \/ content[taskLineNumber] = <<>>
  THEN Failure("Line not found in content", <<>>, <<>>)
  ELSE LET descriptionLines == getTaskDescriptionLines(content, taskLineNumber)
           endLine == taskLineNumber - 1 + Len(descriptionLines)
           head == slice(content, 0, taskLineNumber)
           rest == sliceFrom(content, endLine + 1)
       IN IF newDescription # NoDescription /\ trimText(newDescription) # << <<>> >>
          THEN Success(join(head
                 \o [i \in 1..Len(newDescription) |-> <<" ", " ">> \o newDescription[i]]
                 \o rest))
          ELSE Success(join(head \o rest))

(* the task line is removed, its description block is left behind *)
MutRemoveTask(content, lineNumber) ==
  IF lineNumber < 1 \/ lineNumber > Len(content) \/ content[lineNumber] = <<>>
  THEN Failure("Line not found in content", <<>>, <<>>)
  ELSE IF ~matchTaskPrefix(content[lineNumber])
  THEN Failure("No task found at line", <<>>, <<>>)
  ELSE Success(join(slice(content, 0, lineNumber - 1) \o sliceFrom(content, lineNumber)))

removeTask(content, lineNumber) ==
  IF lineNumber < 1 \/ lineNumber > Len(content) \/ content[lineNumber] = <<>>
  THEN Failure("Line not found in content", <<>>, <<>>)
  ELSE IF ~matchTaskPrefix(content[lineNumber])
  THEN Failure("No task found at line", <<>>, <<>>)
  ELSE LET descriptionLines == getTaskDescriptionLines(content, lineNumber)
           endLine == lineNumber - 1 + Len(descriptionLines)
       IN Success(join(slice(content, 0, lineNumber - 1) \o sliceFrom(content, endLine + 1)))

getTaskCheckbox(status) ==
  CASE status = "completed" -> <<"-", " ", "[", "x", "]">>
    [] status = "closed" -> <<"-", " ", "[", "-", "]">>
    [] OTHER -> <<"-", " ", "[", " ", "]">>

(* description.split('\n').map(line => `  ${line}`) *)
indentLines(description) ==
  [i \in 1..Len(description) |-> <<" ", " ">> \o description[i]]

(* the new task is put behind the section's trailing blank lines *)
MutAddTaskToSection(content, sectionTitle, taskText, description, status) ==
  LET sections == parseMarkdownSections(content)
      found == { i \in 1..Len(sections) :
                   toLowerCase(sections[i].title) = toLowerCase(sectionTitle) }
  IN IF found = {}
     THEN Failure("Section not found", sectionTitle, <<>>)
     ELSE LET targetSection == sections[CHOOSE i \in found : \A j \in found : i <= j]
              taskLines == << getTaskCheckbox(status) \o <<" ">> \o taskText >>
                           \o (IF description # NoDescription /\ description # << <<>> >>
                               THEN indentLines(description) ELSE <<>>)
              updatedContent == targetSection.content \o taskLines \o << <<>> >>
          IN Success(join(slice(content, 0, targetSection.startLine + 1)
                          \o updatedContent
                          \o sliceFrom(content, targetSection.endLine + 1)))

addTaskToSection(content, sectionTitle, taskText, description, status) ==
  LET sections == parseMarkdownSections(content)
      found == { i \in 1..Len(sections) :
                   toLowerCase(sections[i].title) = toLowerCase(sectionTitle) }
  IN IF found = {}
     THEN Failure("Section not found", sectionTitle, <<>>)
     ELSE LET targetSection == sections[CHOOSE i \in found : \A j \in found : i <= j]
              taskLines == << getTaskCheckbox(status) \o <<" ">> \o taskText >>
                           \o (IF description # NoDescription /\ description # << <<>> >>
                               THEN indentLines(description) ELSE <<>>)
              updatedContent == dropBlankTail(targetSection.content) \o taskLines \o << <<>> >>
          IN Success(join(slice(content, 0, targetSection.startLine + 1)
                          \o updatedContent
                          \o sliceFrom(content, targetSection.endLine + 1)))

MutAppendToFile(existingContent, content) ==
  LET trimmed == trimText(existingContent) IN
  IF trimmed # << <<>> >> THEN content \o << <<>> >> \o trimmed ELSE content

appendToFile(existingContent, content) ==
  LET trimmed == trimText(existingContent) IN
  IF trimmed # << <<>> >> THEN trimmed \o << <<>> >> \o content ELSE content

TitleThisWeek == <<"T","h","i","s"," ","W","e","e","k">>
TitleNextWeek == <<"N","e","x","t"," ","W","e","e","k">>
TitleBacklog == <<"B","a","c","k","l","o","g">>
WeekOf == <<"W","e","e","k"," ","o","f"," ">>

Header(title) == <<"#", " ">> \o title

addWeekToArchive(archiveDate, thisWeekContent, archiveContent) ==
  LET sectionTitle == WeekOf \o archiveDate
      newSection == <<Header(sectionTitle)>> \o thisWeekContent
  IN appendToFile(archiveContent, newSection)

MutRebuildCurrentFile(newThisWeekTasks) ==
  <<Header(<<"L","a","s","t"," ","W","e","e","k">>)>> \o << <<>> >>
    \o <<Header(TitleThisWeek)>> \o newThisWeekTasks \o << <<>> >>
    \o <<Header(TitleNextWeek)>> \o << <<>> >>

(* the new week without a section for the next one *)
MutRebuildWithoutNextWeek(newThisWeekTasks) ==
  <<Header(TitleThisWeek)>> \o newThisWeekTasks \o << <<>> >>

rebuildCurrentFile(newThisWeekTasks) ==
  <<Header(TitleThisWeek)>> \o newThisWeekTasks \o << <<>> >>
    \o <<Header(TitleNextWeek)>> \o << <<>> >>

----------------------------------------------------------------------------
(* Collaborators: the date provider and the checkpoint (git) service *)

D0101 == <<"2","0","2","4","-","0","1","-","0","1">>
D0108 == <<"2","0","2","4","-","0","1","-","0","8">>
D0117 == <<"2","0","2","4","-","0","1","-","1","7">>
D0118 == <<"2","0","2","4","-","0","1","-","1","8">>

(* the clock stands at Wednesday 2024-01-17 and moves on to Thursday        *)
(* 2024-01-18; the week to archive is the one of the Monday ten days before  *)
(* the last Thursday                                                         *)
CurrentDates == <<D0117, D0118>>
ArchiveWeekDates == <<D0101, D0108>>

getArchiveWeekDate == ArchiveWeekDates[clk]
getCurrentDate == CurrentDates[clk]

StatusOutcomes == {"dirty", "clean", "failed"}

(* git status --porcelain; a failing command is caught and reported as false *)
hasUntrackedFiles(outcome) == outcome = "dirty"

----------------------------------------------------------------------------
(* Requests, responses and the event log of the request in progress *)

NoDate == <<>>
Undefined == <<>>
Some(x) == <<x>>
NoReq == [op |-> "none", clk0 |-> 0, identifier |-> <<>>, task |-> NoTask, status |-> "",
          destination |-> "", newText |-> Undefined, newDescription |-> Undefined,
          taskText |-> <<>>, description |-> NoDescription,
          archiveDate |-> NoDate, commit |-> <<"", <<>>>>]

(* the three file texts as they were when the request in `req` arrived *)
Files == [current |-> current, backlog |-> backlog, archive |-> archive]
NoResp == [op |-> "none", isError |-> FALSE, message |-> "", subject |-> <<>>, list |-> <<>>]

createSuccessResponse(op, message, subject) ==
  [op |-> op, isError |-> FALSE, message |-> message, subject |-> subject, list |-> <<>>]

createErrorResponse(op, message, subject, list) ==
  [op |-> op, isError |-> TRUE, message |-> message, subject |-> subject, list |-> list]

Event(ev, what, ok) == [ev |-> ev, what |-> what, ok |-> ok]
Read(file) == Event("read", <<file, <<>>>>, TRUE)
Write(file) == Event("write", <<file, <<>>>>, TRUE)
Commit(message, ok) == Event("commit", message, ok)

----------------------------------------------------------------------------
(* Initial documents *)

BoundedSeqs(S, n) == UNION { [1..k -> S] : k \in 0..n }

Blank == <<>>
NewAb == TaskLineOf(" ", <<"A","b">>)
DoneAbC == TaskLineOf("x", <<"a","b"," ","c">>)
ClosedZ == TaskLineOf("-", <<"Z">>)
DescD == <<" ", " ", "d">>
NoteN == <<"n">>
NewQ == TaskLineOf(" ", <<"Q">>)
DoneQ == TaskLineOf("x", <<"Q">>)
DescE == <<" ", " ", "e">>
EmptyTask == <<"-", " ", "[", " ", "]", " ">>
Indent == <<" ", " ">>
AddedOn == <<" ","a","d","d","e","d"," ","o","n"," ">>
BacklogY == TaskLineOf(" ", <<"Y","a","b">> \o AddedOn \o D0101)
ClosedZSp == TaskLineOf("-", <<"Z"," ">>)
BlankTextTask == TaskLineOf(" ", <<" ">>)
EmptyFile == << <<>> >>

ThisWeekPool == {NewAb, DoneAbC, DescD}
NextWeekBodies == { <<>>, <<DoneQ>>, <<NewQ, DescE>> }

(* current.md with both sections, as start_week leaves it and as the tests write it *)
WideCurrentDocs ==
  { <<Header(TitleThisWeek)>> \o b1 \o <<Header(TitleNextWeek)>> \o b2 :
      b1 \in BoundedSeqs(ThisWeekPool, MaxBody), b2 \in NextWeekBodies }

(* hand-edited files: a missing section, text before the first header, an    *)
(* empty file, a task line without text, a whitespace-only indented line     *)
OddCurrentDocs ==
  { <<Header(TitleNextWeek), NewAb>>,
    <<Header(TitleThisWeek), NewAb>>,
    << Blank >>,
    <<NoteN, NewAb, Header(TitleThisWeek), DoneAbC, DescD, Blank, NewQ, Header(TitleNextWeek), Blank>>,
    <<Header(TitleThisWeek), NewAb, EmptyTask, DescD, Blank, Header(TitleNextWeek), Blank>>,
    <<Header(TitleThisWeek), NewAb, Indent, DescD, Header(TitleNextWeek), DoneQ, DescE>>,
    <<Header(<<"t","h","i","s"," ","w","e","e","k">>), NewAb, Header(TitleNextWeek), Blank>> }

FixtureCurrentDocs ==
  { <<Header(TitleThisWeek), DoneAbC, DescD, ClosedZ, NewAb, DescD, Blank,
      Header(TitleNextWeek), DoneQ, DescE, NewQ>>,
    <<Header(TitleThisWeek), Blank, Header(TitleNextWeek), Blank>> }

(* '# Backlog\n' and '# Archive\n' as initializeWorkspace writes them *)
BacklogTemplate == <<Header(TitleBacklog), Blank>>
ArchiveTemplate == <<Header(<<"A","r","c","h","i","v","e">>), Blank>>

InitBacklogDocs ==
  { BacklogTemplate,
    <<Header(TitleBacklog), BacklogY, DescE, ClosedZ, Blank>> }

InitArchiveDocs ==
  { ArchiveTemplate,
    EmptyFile,
    <<Header(WeekOf \o D0101), NewAb, Header(WeekOf \o D0108), DoneQ, BlankTextTask>>,
    <<Blank, Header(WeekOf \o D0101), DoneQ, DescE, ClosedZSp, Blank, Blank>> }

Identifiers == { <<"A","B">>, <<"c">>, <<"Q">>, <<"k">>, <<"z">>, <<" ">> }

(* A behaviour starts from one of four kinds of workspace: any current with  *)
(* one task-level request to come; any current with one start_week to come;  *)
(* a fixture with up to MaxRollovers start_week requests to come; a fixture  *)
(* with one task-level request and one start_week to come, in either order.  *)
(* `budget` counts the task-level requests left, `rollovers` the start_week  *)
(* requests left.                                                            *)
Init ==
  /\ \/ /\ current \in WideCurrentDocs \cup OddCurrentDocs \cup FixtureCurrentDocs
        /\ backlog \in InitBacklogDocs /\ archive = ArchiveTemplate
        /\ budget = 1 /\ rollovers = 0
     \/ /\ current \in WideCurrentDocs \cup OddCurrentDocs
        /\ backlog = BacklogTemplate /\ archive \in InitArchiveDocs
        /\ budget = 0 /\ rollovers = 1
     \/ /\ current \in FixtureCurrentDocs
        /\ backlog = BacklogTemplate /\ archive \in InitArchiveDocs
        /\ budget = 0 /\ rollovers = MaxRollovers
     \/ /\ current \in FixtureCurrentDocs
        /\ backlog \in InitBacklogDocs \ {BacklogTemplate} /\ archive = ArchiveTemplate
        /\ budget = 1 /\ rollovers = 1
  /\ clk = 1
  /\ pc = "idle"
  /\ req = NoReq
  /\ resp = NoResp
  /\ prev = [resp |-> NoResp, clk0 |-> 0]
  /\ log = <<>>
  /\ snap = [current |-> current, backlog |-> backlog, archive |-> archive]
  /\ document = EmptyFile
  /\ calls = <<>>
  /\ parked = <<>>

----------------------------------------------------------------------------
(* start_week *)

(* the test `!thisWeekSection || !nextWeekSection` *)
requiredSectionsMissing(thisWeekSection, nextWeekSection) ==
  thisWeekSection = NoSection \/ nextWeekSection = NoSection

(* handler entry up to the resolution of `await hasUntrackedFiles()` *)
StartWeekStatus(outcome) ==
  /\ pc = "idle"
  /\ rollovers > 0
  /\ rollovers' = rollovers - 1
  /\ prev' = [resp |-> resp, clk0 |-> req.clk0]
  /\ req' = [NoReq EXCEPT !.op = "start_week", !.clk0 = clk]
  /\ snap' = Files
  /\ log' = << Event("status", <<outcome, <<>>>>, outcome # "failed") >>
  /\ pc' = IF hasUntrackedFiles(outcome) THEN "sw_precommit" ELSE "sw_body"
  /\ UNCHANGED <<current, backlog, archive, clk, resp, budget>>
  /\ UNCHANGED <<codecVars, parked>>

(* `await commitChanges('Pre-start-week backup')` resolves or rejects *)
StartWeekPreCommit(ok) ==
  /\ pc = "sw_precommit"
  /\ log' = Append(log, Commit(<<"Pre-start-week backup", <<>>>>, ok))
  /\ IF ok
     THEN pc' = "sw_body" /\ UNCHANGED resp
     ELSE /\ pc' = "idle"
          /\ resp' = createErrorResponse("start_week", "Command failed", <<>>, <<>>)
  /\ UNCHANGED <<current, backlog, archive, clk, req, prev, snap, budget, rollovers>>
  /\ UNCHANGED <<codecVars, parked>>

(* the synchronous part of performWeekTransition, steps 2 to 7, up to the   *)
(* call of the final commitChanges                                          *)
StartWeekBody ==
  /\ pc = "sw_body"
  /\ LET sections == parseMarkdownSections(current)
         thisWeekSection == findSection(sections, TitleThisWeek)
         nextWeekSection == findSection(sections, TitleNextWeek)
     IN IF requiredSectionsMissing(thisWeekSection, nextWeekSection)
        THEN /\ pc' = "idle"
             /\ resp' = createErrorResponse("start_week",
                          "Required sections not found in current.md", <<>>, <<>>)
             /\ log' = Append(log, Read("current"))
             /\ UNCHANGED <<current, archive, req>>
        ELSE LET archiveDate == getArchiveWeekDate
                 thisWeekUnfinished ==
                   filterTasksByCompletion(thisWeekSection[1].content).unfinished
                 newThisWeekTasks == thisWeekUnfinished \o nextWeekSection[1].content
             IN /\ archive' = addWeekToArchive(archiveDate, thisWeekSection[1].content, archive)
                /\ current' = rebuildCurrentFile(newThisWeekTasks)
                /\ log' = log \o << Read("current"), Read("archive"), Write("archive"),
                                    Read("current"), Write("current") >>
                /\ req' = [req EXCEPT !.archiveDate = archiveDate,
                                      !.commit = <<"Completed week transition to", getCurrentDate>>]
                /\ pc' = "sw_postcommit"
                /\ UNCHANGED resp
  /\ UNCHANGED <<backlog, clk, prev, snap, budget, rollovers>>
  /\ UNCHANGED <<codecVars, parked>>

(* the final `await commitChanges(...)` resolves or rejects *)
StartWeekPostCommit(ok) ==
  /\ pc = "sw_postcommit"
  /\ log' = Append(log, Commit(req.commit, ok))
  /\ pc' = "idle"
  /\ resp' = IF ok
             THEN createSuccessResponse("start_week",
                    "Successfully completed week transition. Archived week of",
                    req.archiveDate)
             ELSE createErrorResponse("start_week", "Command failed", <<>>, <<>>)
  /\ UNCHANGED <<current, backlog, archive, clk, req, prev, snap, budget, rollovers>>
  /\ UNCHANGED <<codecVars, parked>>

----------------------------------------------------------------------------
(* finish_task *)

(* a task that is already closed is not recognised as such *)
MutCheckTaskAlreadyInState(task, status) ==
  status = "completed" /\ task.isCompleted

checkTaskAlreadyInState(task, status) ==
  \/ status = "completed" /\ task.isCompleted
  \/ status = "closed" /\ task.isClosed

(* handler entry up to the call of commitChanges *)
FinishTaskCall(identifier, status) ==
  /\ pc = "idle"
  /\ budget > 0
  /\ budget' = budget - 1
  /\ prev' = [resp |-> resp, clk0 |-> req.clk0]
  /\ snap' = Files
  /\ LET found == validateTaskMatch(identifier, current, backlog)
         request == [NoReq EXCEPT !.op = "finish_task", !.clk0 = clk,
                                     !.identifier = identifier, !.status = status]
         located == << Read("current"), Read("backlog") >>
     IN IF ~found.ok
        THEN /\ resp' = createErrorResponse("finish_task", found.message,
                                            found.subject, found.list)
             /\ req' = request
             /\ log' = located
             /\ pc' = "idle"
             /\ UNCHANGED <<current, backlog>>
        ELSE LET task == found.value
                 content == IF task.file = "current" THEN current ELSE backlog
                 updated == updateTaskStatus(content, task.lineNumber, status)
             IN /\ req' = [request EXCEPT !.task = <<task>>,
                             !.commit = <<IF status = "completed" THEN "Completed task:"
                                          ELSE "Closed task:", task.taskText>>]
                /\ IF checkTaskAlreadyInState(task, status)
                   THEN /\ resp' = createSuccessResponse("finish_task",
                                     "is already marked as", task.taskText)
                        /\ log' = located
                        /\ pc' = "idle"
                        /\ UNCHANGED <<current, backlog>>
                   ELSE IF ~updated.ok
                   THEN /\ resp' = createErrorResponse("finish_task", updated.message,
                                                       <<>>, <<>>)
                        /\ log' = Append(located, Read(task.file))
                        /\ pc' = "idle"
                        /\ UNCHANGED <<current, backlog>>
                   ELSE /\ current' = IF task.file = "current" THEN updated.value ELSE current
                        /\ backlog' = IF task.file = "backlog" THEN updated.value ELSE backlog
                        /\ log' = located \o << Read(task.file), Write(task.file) >>
                        /\ pc' = "ft_commit"
                        /\ UNCHANGED resp
  /\ UNCHANGED <<archive, clk, rollovers>>
  /\ UNCHANGED <<codecVars, parked>>

(* a failed commit takes the written change back *)
MutFinishTaskCommit(ok) ==
  /\ pc = "ft_commit"
  /\ log' = Append(log, Commit(req.commit, ok))
  /\ pc' = "idle"
  /\ resp' = IF ok
             THEN createSuccessResponse("finish_task", "Successfully marked task",
                                        req.task[1].taskText)
             ELSE createErrorResponse("finish_task", "Command failed", <<>>, <<>>)
  /\ current' = IF ok THEN current ELSE snap.current
  /\ backlog' = IF ok THEN backlog ELSE snap.backlog
  /\ UNCHANGED <<archive, clk, req, prev, snap, budget, rollovers>>
  /\ UNCHANGED <<codecVars, parked>>

FinishTaskCommit(ok) ==
  /\ pc = "ft_commit"
  /\ log' = Append(log, Commit(req.commit, ok))
  /\ pc' = "idle"
  /\ resp' = IF ok
             THEN createSuccessResponse("finish_task", "Successfully marked task",
                                        req.task[1].taskText)
             ELSE createErrorResponse("finish_task", "Command failed", <<>>, <<>>)
  /\ UNCHANGED <<current, backlog, archive, clk, req, prev, snap, budget, rollovers>>
  /\ UNCHANGED <<codecVars, parked>>

----------------------------------------------------------------------------
(* edit_task *)

IsDigit(c) == c \in {"0", "1", "2", "3", "4", "5", "6", "7", "8", "9"}

(* the match of /^(.+) added on (\d{4}-\d{2}-\d{2})$/ *)
matchDateSuffix(text) ==
  /\ Len(text) >= 21
  /\ SubSeq(text, Len(text) - 19, Len(text) - 10) = AddedOn
  /\ \A k \in 1..10 :
       IF k \in {5, 8} THEN text[Len(text) - 10 + k] = "-"
       ELSE IsDigit(text[Len(text) - 10 + k])

(* an empty new_text counts as provided *)
MutValidateEditParameters(newText, newDescription) ==
  ~(newText = Undefined /\ newDescription = Undefined)

validateEditParameters(newText, newDescription) ==
  ~((newText = Undefined \/ newText = Some(<<>>)) /\ newDescription = Undefined)

MutUpdateBacklogTaskText(originalText, newText) ==
  newText \o AddedOn \o getCurrentDate

updateBacklogTaskText(originalText, newText) ==
  IF matchDateSuffix(originalText)
  THEN newText \o AddedOn \o SubSeq(originalText, Len(originalText) - 9, Len(originalText))
  ELSE newText \o AddedOn \o getCurrentDate

(* the modifier that updateTaskInFile hands to changeFile *)
updateTaskInFile(content, fileName, task, newText, newDescription) ==
  LET textDone ==
        IF newText # Undefined /\ newText # Some(<<>>)
        THEN updateTaskText(content, task.lineNumber,
                            IF fileName = "backlog"
                            THEN updateBacklogTaskText(task.taskText, newText[1])
                            ELSE newText[1])
        ELSE Success(content)
  IN IF ~textDone.ok THEN textDone
     ELSE IF newDescription # Undefined
     THEN updateTaskDescription(textDone.value, task.lineNumber,
                                IF newDescription = Some(<< <<>> >>)
                                THEN NoDescription ELSE newDescription[1])
     ELSE textDone

formatUpdateMessage(newText, newDescription) ==
  LET text == newText # Undefined /\ newText # Some(<<>>)
      description == IF newDescription = Undefined THEN ""
                     ELSE IF newDescription # Some(<< <<>> >>) THEN "description"
                     ELSE "description (cleared)"
  IN IF text /\ description # "" THEN "Updated text and " \o description
     ELSE IF text THEN "Updated text"
     ELSE "Updated " \o description

(* pairs of new_text and new_description *)
EditInputs ==
  { <<Some(<<>>), Undefined>>,
    <<Some(<<"N", "b">>), Undefined>>,
    <<Undefined, Some(<< <<>> >>)>>,
    <<Some(<<>>), Some(<< <<"f">>, <<"g">> >>)>>,
    <<Some(<<"N", "b">>), Some(<< <<"f">> >>)>> }

(* handler entry up to the call of commitChanges *)
EditTaskCall(identifier, newText, newDescription) ==
  /\ pc = "idle"
  /\ budget > 0
  /\ budget' = budget - 1
  /\ prev' = [resp |-> resp, clk0 |-> req.clk0]
  /\ snap' = Files
  /\ LET request == [NoReq EXCEPT !.op = "edit_task", !.clk0 = clk,
                                     !.identifier = identifier, !.newText = newText,
                                     !.newDescription = newDescription]
         located == << Read("current"), Read("backlog") >>
     IN IF ~validateEditParameters(newText, newDescription)
        THEN /\ resp' = createErrorResponse("edit_task",
                          "At least one of new_text or new_description must be provided",
                          <<>>, <<>>)
             /\ req' = request
             /\ log' = <<>>
             /\ pc' = "idle"
             /\ UNCHANGED <<current, backlog>>
        ELSE LET found == validateTaskMatch(identifier, current, backlog) IN
             IF ~found.ok
             THEN /\ resp' = createErrorResponse("edit_task", found.message,
                                                 found.subject, found.list)
                  /\ req' = request
                  /\ log' = located
                  /\ pc' = "idle"
                  /\ UNCHANGED <<current, backlog>>
             ELSE LET task == found.value
                      content == IF task.file = "current" THEN current ELSE backlog
                      updated == updateTaskInFile(content, task.file, task,
                                                  newText, newDescription)
                  IN /\ req' = [request EXCEPT !.task = <<task>>,
                                               !.commit = <<"Edited task:", task.taskText>>]
                     /\ IF ~updated.ok
                        THEN /\ resp' = createErrorResponse("edit_task", updated.message,
                                                            <<>>, <<>>)
                             /\ log' = Append(located, Read(task.file))
                             /\ pc' = "idle"
                             /\ UNCHANGED <<current, backlog>>
                        ELSE /\ current' = IF task.file = "current" THEN updated.value
                                           ELSE current
                             /\ backlog' = IF task.file = "backlog" THEN updated.value
                                           ELSE backlog
                             /\ log' = located \o << Read(task.file), Write(task.file) >>
                             /\ pc' = "et_commit"
                             /\ UNCHANGED resp
  /\ UNCHANGED <<archive, clk, rollovers>>
  /\ UNCHANGED <<codecVars, parked>>

(* a handler that writes the description after its await, at the line it *)
(* located before it                                                     *)
MutEditTaskCommit(ok) ==
  /\ pc = "et_commit"
  /\ log' = Append(log, Commit(req.commit, ok))
  /\ pc' = "idle"
  /\ resp' = IF ok
             THEN createSuccessResponse("edit_task",
                    "Successfully updated task - "
                      \o formatUpdateMessage(req.newText, req.newDescription),
                    req.task[1].taskText)
             ELSE createErrorResponse("edit_task", "Command failed", <<>>, <<>>)
  /\ LET written == updateTaskDescription(IF req.task[1].file = "backlog" THEN backlog
                                          ELSE current,
                                          req.task[1].lineNumber, NoDescription)
     IN /\ current' = IF req.task[1].file = "current" /\ written.ok THEN written.value
                       ELSE current
        /\ backlog' = IF req.task[1].file = "backlog" /\ written.ok THEN written.value
                       ELSE backlog
  /\ UNCHANGED <<archive, clk, req, prev, snap, budget, rollovers>>
  /\ UNCHANGED <<codecVars, parked>>

EditTaskCommit(ok) ==
  /\ pc = "et_commit"
  /\ log' = Append(log, Commit(req.commit, ok))
  /\ pc' = "idle"
  /\ resp' = IF ok
             THEN createSuccessResponse("edit_task",
                    "Successfully updated task - "
                      \o formatUpdateMessage(req.newText, req.newDescription),
                    req.task[1].taskText)
             ELSE createErrorResponse("edit_task", "Command failed", <<>>, <<>>)
  /\ UNCHANGED <<current, backlog, archive, clk, req, prev, snap, budget, rollovers>>
  /\ UNCHANGED <<codecVars, parked>>

----------------------------------------------------------------------------
(* move_task *)

Destinations == {"backlog", "current_week", "next_week"}

getDestinationInfo(destination) ==
  CASE destination = "backlog" -> [file |-> "backlog", section |-> TitleBacklog]
    [] destination = "current_week" -> [file |-> "current", section |-> TitleThisWeek]
    [] destination = "next_week" -> [file |-> "current", section |-> TitleNextWeek]

(* destination.replace('_', ' ') *)
locationName(destination) ==
  CASE destination = "backlog" -> <<"b","a","c","k","l","o","g">>
    [] destination = "current_week" -> <<"c","u","r","r","e","n","t"," ","w","e","e","k">>
    [] destination = "next_week" -> <<"n","e","x","t"," ","w","e","e","k">>

(* undefined when the task has no description lines *)
extractTaskDescription(content, task) ==
  LET descriptionLines == getTaskDescriptionLines(content, task.lineNumber) IN
  IF Len(descriptionLines) = 0 THEN NoDescription
  ELSE [i \in 1..Len(descriptionLines) |-> substring(descriptionLines[i], 2)]

(* the date put on a task moved to the backlog is the first date, not the date of the move *)
MutTransformTaskText(taskText, fromDestination, toDestination) ==
  IF fromDestination = "backlog" /\ toDestination # "backlog" /\ matchDateSuffix(taskText)
  THEN SubSeq(taskText, 1, Len(taskText) - 20)
  ELSE IF fromDestination # "backlog" /\ toDestination = "backlog"
  THEN taskText \o AddedOn \o CurrentDates[1]
  ELSE taskText

transformTaskText(taskText, fromDestination, toDestination) ==
  IF fromDestination = "backlog" /\ toDestination # "backlog" /\ matchDateSuffix(taskText)
  THEN SubSeq(taskText, 1, Len(taskText) - 20)
  ELSE IF fromDestination # "backlog" /\ toDestination = "backlog"
  THEN taskText \o AddedOn \o getCurrentDate
  ELSE taskText

(* "unknown" stands for the thrown `Unknown source section` *)
getSourceDestination(task) ==
  IF task.file = "backlog" THEN "backlog"
  ELSE IF task.section = TitleThisWeek THEN "current_week"
  ELSE IF task.section = TitleNextWeek THEN "next_week"
  ELSE "unknown"

(* removeTaskFromSource, then addTaskToFile, up to the call of commitChanges *)
performTaskMove(task, sourceDestination, destination, request, located) ==
  LET destinationInfo == getDestinationInfo(destination)
      source == IF task.file = "current" THEN current ELSE backlog
      description == extractTaskDescription(source, task)
      transformedText == transformTaskText(task.taskText, sourceDestination, destination)
      removed == removeTask(source, task.lineNumber)
      current1 == IF removed.ok /\ task.file = "current" THEN removed.value ELSE current
      backlog1 == IF removed.ok /\ task.file = "backlog" THEN removed.value ELSE backlog
      added == addTaskToSection(IF destinationInfo.file = "current" THEN current1
                                ELSE backlog1,
                                destinationInfo.section, transformedText, description, "new")
  IN /\ req' = [request EXCEPT !.task = <<task>>,
                   !.commit = <<"Moved task:",
                                task.taskText \o <<" ","f","r","o","m"," ">>
                                  \o locationName(sourceDestination) \o <<" ","t","o"," ">>
                                  \o locationName(destination)>>]
     /\ IF ~removed.ok
        THEN /\ resp' = createErrorResponse("move_task", removed.message, <<>>, <<>>)
             /\ log' = located \o << Read(task.file), Read(task.file) >>
             /\ pc' = "idle"
             /\ UNCHANGED <<current, backlog>>
        ELSE IF ~added.ok
        THEN /\ resp' = createErrorResponse("move_task", added.message, added.subject, <<>>)
             /\ current' = current1
             /\ backlog' = backlog1
             /\ log' = located \o << Read(task.file), Read(task.file), Write(task.file),
                                      Read(destinationInfo.file) >>
             /\ pc' = "idle"
        ELSE /\ current' = IF destinationInfo.file = "current" THEN added.value ELSE current1
             /\ backlog' = IF destinationInfo.file = "backlog" THEN added.value ELSE backlog1
             /\ log' = located \o << Read(task.file), Read(task.file), Write(task.file),
                                      Read(destinationInfo.file), Write(destinationInfo.file) >>
             /\ pc' = "mt_commit"
             /\ UNCHANGED resp

(* handler entry up to the call of commitChanges *)
MoveTaskCall(identifier, destination) ==
  /\ pc = "idle"
  /\ budget > 0
  /\ budget' = budget - 1
  /\ prev' = [resp |-> resp, clk0 |-> req.clk0]
  /\ snap' = Files
  /\ LET found == validateTaskMatch(identifier, current, backlog)
         request == [NoReq EXCEPT !.op = "move_task", !.clk0 = clk,
                                     !.identifier = identifier, !.destination = destination]
         located == << Read("current"), Read("backlog") >>
     IN IF ~found.ok
        THEN /\ resp' = createErrorResponse("move_task", found.message,
                                            found.subject, found.list)
             /\ req' = request
             /\ log' = located
             /\ pc' = "idle"
             /\ UNCHANGED <<current, backlog>>
        ELSE LET task == found.value
                 sourceDestination == getSourceDestination(task)
             IN IF sourceDestination = "unknown"
                THEN /\ resp' = createErrorResponse("move_task", "Unknown source section",
                                                    task.section, <<>>)
                     /\ req' = [request EXCEPT !.task = <<task>>]
                     /\ log' = located
                     /\ pc' = "idle"
                     /\ UNCHANGED <<current, backlog>>
                ELSE IF sourceDestination = destination
                THEN /\ resp' = createSuccessResponse("move_task", "is already in",
                                                      task.taskText)
                     /\ req' = [request EXCEPT !.task = <<task>>]
                     /\ log' = located
                     /\ pc' = "idle"
                     /\ UNCHANGED <<current, backlog>>
                ELSE performTaskMove(task, sourceDestination, destination,
                                     request, located)
  /\ UNCHANGED <<archive, clk, rollovers>>
  /\ UNCHANGED <<codecVars, parked>>

MoveTaskCommit(ok) ==
  /\ pc = "mt_commit"
  /\ log' = Append(log, Commit(req.commit, ok))
  /\ pc' = "idle"
  /\ resp' = IF ok
             THEN createSuccessResponse("move_task", "Successfully moved task",
                                        req.task[1].taskText)
             ELSE createErrorResponse("move_task", "Command failed", <<>>, <<>>)
  /\ UNCHANGED <<current, backlog, archive, clk, req, prev, snap, budget, rollovers>>
  /\ UNCHANGED <<codecVars, parked>>

----------------------------------------------------------------------------
(* add_task *)

determineTaskTarget(target, taskText) ==
  IF target = "backlog"
  THEN [fileName |-> "backlog", sectionTitle |-> TitleBacklog,
        taskText |-> taskText \o AddedOn \o getCurrentDate]
  ELSE [fileName |-> "current",
        sectionTitle |-> IF target = "current_week" THEN TitleThisWeek ELSE TitleNextWeek,
        taskText |-> taskText]

TextKW == <<"k", "W">>

(* task_text, description *)
AddInputs == { <<TextKW, NoDescription>>, <<TextKW, << <<"g">> >> >> }

(* addTaskToFile, up to the call of commitChanges *)
AddTaskCall(taskText, target, description) ==
  /\ pc = "idle"
  /\ budget > 0
  /\ budget' = budget - 1
  /\ prev' = [resp |-> resp, clk0 |-> req.clk0]
  /\ snap' = Files
  /\ LET taskTarget == determineTaskTarget(target, taskText)
         added == addTaskToSection(IF taskTarget.fileName = "current" THEN current
                                   ELSE backlog,
                                   taskTarget.sectionTitle, taskTarget.taskText,
                                   description, "new")
     IN /\ req' = [NoReq EXCEPT !.op = "add_task", !.clk0 = clk,
                                 !.destination = target, !.taskText = taskText,
                                 !.description = description,
                                 !.commit = <<"Added task:", taskText>>]
        /\ IF ~added.ok
           THEN /\ resp' = createErrorResponse("add_task", added.message, added.subject, <<>>)
                /\ log' = << Read(taskTarget.fileName) >>
                /\ pc' = "idle"
                /\ UNCHANGED <<current, backlog>>
           ELSE /\ current' = IF taskTarget.fileName = "current" THEN added.value ELSE current
                /\ backlog' = IF taskTarget.fileName = "backlog" THEN added.value ELSE backlog
                /\ log' = << Read(taskTarget.fileName), Write(taskTarget.fileName) >>
                /\ pc' = "at_commit"
                /\ UNCHANGED resp
  /\ UNCHANGED <<archive, clk, rollovers>>
  /\ UNCHANGED <<codecVars, parked>>

AddTaskCommit(ok) ==
  /\ pc = "at_commit"
  /\ log' = Append(log, Commit(req.commit, ok))
  /\ pc' = "idle"
  /\ resp' = IF ok
             THEN createSuccessResponse("add_task", "Successfully added task", req.taskText)
             ELSE createErrorResponse("add_task", "Command failed", <<>>, <<>>)
  /\ UNCHANGED <<current, backlog, archive, clk, req, prev, snap, budget, rollovers>>
  /\ UNCHANGED <<codecVars, parked>>

----------------------------------------------------------------------------
(* The date provider moves on to the next week *)

ClockTick ==
  /\ clk < Len(ArchiveWeekDates)
  /\ clk' = clk + 1
  /\ UNCHANGED <<current, backlog, archive, pc, req, resp, prev, log, snap, budget, rollovers>>
  /\ UNCHANGED <<codecVars, parked>>

Next ==
  \/ \E outcome \in StatusOutcomes : StartWeekStatus(outcome)
  \/ \E ok \in BOOLEAN : StartWeekPreCommit(ok)
  \/ StartWeekBody
  \/ \E ok \in BOOLEAN : StartWeekPostCommit(ok)
  \/ \E identifier \in Identifiers, status \in {"completed", "closed"} :
       FinishTaskCall(identifier, status)
  \/ \E ok \in BOOLEAN : FinishTaskCommit(ok)
  \/ \E identifier \in Identifiers, input \in EditInputs :
       EditTaskCall(identifier, input[1], input[2])
  \/ \E ok \in BOOLEAN : EditTaskCommit(ok)
  \/ \E identifier \in Identifiers, destination \in Destinations :
       MoveTaskCall(identifier, destination)
  \/ \E ok \in BOOLEAN : MoveTaskCommit(ok)
  \/ \E input \in AddInputs, target \in Destinations :
       AddTaskCall(input[1], target, input[2])
  \/ \E ok \in BOOLEAN : AddTaskCommit(ok)
  \/ ClockTick

Spec == Init /\ [][Next]_vars

(* A backlog task through its places: three task-level requests from a      *)
(* workspace with the sections of the templates, across a change of date.   *)
RoundTripInit ==
  /\ current \in { <<Header(TitleThisWeek), Blank, Header(TitleNextWeek), Blank>>,
                   <<Header(TitleThisWeek), DoneAbC, DescD, Blank, Header(TitleNextWeek), NewQ>> }
  /\ backlog \in InitBacklogDocs
  /\ archive = ArchiveTemplate
  /\ budget = 3 /\ rollovers = 0
  /\ clk = 1 /\ pc = "idle" /\ req = NoReq /\ resp = NoResp
  /\ prev = [resp |-> NoResp, clk0 |-> 0]
  /\ log = <<>>
  /\ snap = [current |-> current, backlog |-> backlog, archive |-> archive]
  /\ document = EmptyFile /\ calls = <<>>
  /\ parked = <<>>

RoundTripNext ==
  \/ \E input \in AddInputs, target \in Destinations :
       AddTaskCall(input[1], target, input[2])
  \/ \E ok \in BOOLEAN : AddTaskCommit(ok)
  \/ \E identifier \in {<<"k">>, <<"Q">>}, destination \in Destinations :
       MoveTaskCall(identifier, destination)
  \/ \E ok \in BOOLEAN : MoveTaskCommit(ok)
  \/ ClockTick

RoundTripSpec == RoundTripInit /\ [][RoundTripNext]_vars

----------------------------------------------------------------------------
(* The markdown mutators called on their own, as the unit tests call them:   *)
(* any line number from 1 to one past the end, on documents with non-task    *)
(* lines, blank lines and task lines without text.  A call that returns      *)
(* gives the next document; a call that throws leaves the document.          *)

NoCall ==
  [op |-> "none", before |-> EmptyFile, lineNumber |-> 0, status |-> "",
   text |-> <<>>, description |-> NoDescription, title |-> <<>>,
   result |-> Success(EmptyFile)]

Call(op, lineNumber, status, text, description, title, result) ==
  [op |-> op, before |-> document, lineNumber |-> lineNumber, status |-> status,
   text |-> text, description |-> description, title |-> title, result |-> result]

StatusStump == <<"-", " ", "[", "x", "]">>
TextW == <<"W">>

CodecPool == {NewAb, DescD, Blank}

CodecDocs ==
  { <<Header(TitleThisWeek)>> \o body \o <<Blank, Header(TitleNextWeek), DoneQ, DescE>> :
      body \in BoundedSeqs(CodecPool, MaxBody) }
  \cup
  { EmptyFile,
    <<ClosedZ>>,
    <<NoteN, DoneAbC>>,
    <<Header(TitleThisWeek), DoneAbC, DescD, DescE, ClosedZ, Blank, Blank, Header(TitleNextWeek)>>,
    <<Header(TitleThisWeek), EmptyTask, Indent, DescD, Header(TitleNextWeek), StatusStump, Blank>>,
    <<Header(<<"t","h","i","s"," ","w","e","e","k">>), NewAb, NoteN, Blank>>,
    << <<"#", "Q">>, <<"#", " ", " ", "Q", " ">>, NewAb, Blank, <<" ", "#", " ", "Q">>,
       <<"#", " ">> >> }

(* null, '', ' ', 'g', 'g\nh', 'g\n\nh' *)
Descriptions ==
  { NoDescription, <<Blank>>, << <<" ">> >>, << <<"g">> >>, << <<"g">>, <<"h">> >>,
    << <<"g">>, Blank, <<"h">> >> }

SectionTitles == { TitleThisWeek, <<"n","e","x","t"," ","w","e","e","k">>, TitleBacklog }

CodecInit ==
  /\ document \in CodecDocs
  /\ calls = <<>>
  /\ current = EmptyFile /\ backlog = EmptyFile /\ archive = EmptyFile
  /\ clk = 1 /\ pc = "idle" /\ req = NoReq /\ resp = NoResp
  /\ prev = [resp |-> NoResp, clk0 |-> 0]
  /\ log = <<>>
  /\ snap = [current |-> current, backlog |-> backlog, archive |-> archive]
  /\ budget = 0 /\ rollovers = 0
  /\ parked = <<>>

Returned(call) ==
  /\ calls' = Append(calls, call)
  /\ document' = IF call.result.ok THEN call.result.value ELSE document
  /\ UNCHANGED toolVars

updateTaskStatusCall(lineNumber, newStatus) ==
  /\ Len(calls) < 2
  /\ Returned(Call("updateTaskStatus", lineNumber, newStatus, <<>>, NoDescription, <<>>,
                     updateTaskStatus(document, lineNumber, newStatus)))

updateTaskTextCall(lineNumber, newText) ==
  /\ Len(calls) < 2
  /\ Returned(Call("updateTaskText", lineNumber, "", newText, NoDescription, <<>>,
                     updateTaskText(document, lineNumber, newText)))

updateTaskDescriptionCall(taskLineNumber, newDescription) ==
  /\ Len(calls) < 2
  /\ Returned(Call("updateTaskDescription", taskLineNumber, "", <<>>, newDescription, <<>>,
                     updateTaskDescription(document, taskLineNumber, newDescription)))

removeTaskCall(lineNumber) ==
  /\ Len(calls) < 2
  /\ Returned(Call("removeTask", lineNumber, "", <<>>, NoDescription, <<>>,
                     removeTask(document, lineNumber)))

addTaskToSectionCall(sectionTitle, taskText, description, status) ==
  /\ Len(calls) < 2
  /\ Returned(Call("addTaskToSection", 0, status, taskText, description, sectionTitle,
                     addTaskToSection(document, sectionTitle, taskText, description, status)))

CodecNext ==
  \/ \E lineNumber \in 1..(Len(document) + 1), newStatus \in {"completed", "closed"} :
       updateTaskStatusCall(lineNumber, newStatus)
  \/ \E lineNumber \in 1..(Len(document) + 1) : updateTaskTextCall(lineNumber, TextW)
  \/ \E lineNumber \in 1..(Len(document) + 1), newDescription \in Descriptions :
       updateTaskDescriptionCall(lineNumber, newDescription)
  \/ \E lineNumber \in 1..(Len(document) + 1) : removeTaskCall(lineNumber)
  \/ \E sectionTitle \in SectionTitles, description \in Descriptions,
        status \in {"new", "completed", "closed"} :
       addTaskToSectionCall(sectionTitle, TextW, description, status)

CodecSpec == CodecInit /\ [][CodecNext]_vars

----------------------------------------------------------------------------
(* Several requests in flight.  The file reads and writes of the handlers   *)
(* are synchronous; a handler gives up control only at `await                *)
(* commitChanges(...)`.  While it waits there the server may start the       *)
(* handler of another request, and the waiting handlers go on in any order.  *)

(* the running handler waits at its await; its variables are put aside *)
Suspend ==
  /\ pc \in {"ft_commit", "et_commit", "mt_commit"}
  /\ budget > 0 /\ Len(parked) < 2
  /\ parked' = Append(parked, [pc |-> pc, req |-> req, log |-> log, snap |-> snap])
  /\ pc' = "idle" /\ req' = NoReq /\ log' = <<>>
  /\ UNCHANGED <<current, backlog, archive, clk, resp, prev, snap, budget, rollovers>>
  /\ UNCHANGED codecVars

(* the commit of a waiting handler is about to settle: the handler goes on *)
Resume(i) ==
  /\ pc = "idle" /\ i \in 1..Len(parked)
  /\ pc' = parked[i].pc /\ req' = parked[i].req
  /\ log' = parked[i].log /\ snap' = parked[i].snap
  /\ parked' = SubSeq(parked, 1, i - 1) \o SubSeq(parked, i + 1, Len(parked))
  /\ UNCHANGED <<current, backlog, archive, clk, resp, prev, budget, rollovers>>
  /\ UNCHANGED codecVars

ConcurrentInit ==
  /\ current \in { <<Header(TitleThisWeek), DoneAbC, DescD, ClosedZ, NewAb, DescD, Blank,
                     Header(TitleNextWeek), DoneQ, DescE, NewQ>>,
                   <<Header(TitleThisWeek), NewQ, DescD, Header(TitleNextWeek), ClosedZ>> }
  /\ backlog \in InitBacklogDocs
  /\ archive = ArchiveTemplate
  /\ budget = 2 /\ rollovers = 0
  /\ clk = 1 /\ pc = "idle" /\ req = NoReq /\ resp = NoResp
  /\ prev = [resp |-> NoResp, clk0 |-> 0]
  /\ log = <<>>
  /\ snap = [current |-> current, backlog |-> backlog, archive |-> archive]
  /\ document = EmptyFile /\ calls = <<>>
  /\ parked = <<>>

ConcurrentNext ==
  \/ \E identifier \in Identifiers, status \in {"completed", "closed"} :
       FinishTaskCall(identifier, status)
  \/ \E ok \in BOOLEAN : FinishTaskCommit(ok)
  \/ \E identifier \in Identifiers, input \in EditInputs :
       EditTaskCall(identifier, input[1], input[2])
  \/ \E ok \in BOOLEAN : EditTaskCommit(ok)
  \/ \E identifier \in Identifiers, destination \in Destinations :
       MoveTaskCall(identifier, destination)
  \/ \E ok \in BOOLEAN : MoveTaskCommit(ok)
  \/ Suspend
  \/ \E i \in 1..2 : Resume(i)

ConcurrentSpec == ConcurrentInit /\ [][ConcurrentNext]_vars

----------------------------------------------------------------------------
(* Vocabulary of the properties *)

Completed(op) == pc = "idle" /\ req.op = op

Transitioned(r) ==
  /\ r.op = "start_week" /\ ~r.isError
  /\ r.message = "Successfully completed week transition. Archived week of"

AlreadyArchived(r) ==
  /\ r.op = "start_week" /\ ~r.isError
  /\ r.message = "has already been archived. No changes made."

WriteEvents == { i \in 1..Len(log) : log[i].ev = "write" }
CommitEvents == { i \in 1..Len(log) : log[i].ev = "commit" }
PreCommitEvents == { i \in CommitEvents : log[i].what[1] = "Pre-start-week backup" }
PostCommitEvents == { i \in CommitEvents : log[i].what[1] = "Completed week transition to" }
EventsAt(e) == { i \in 1..Len(log) : log[i] = e }

HasSectionTitled(content, title) ==
  \E i \in 1..Len(content) :
    /\ Len(content[i]) >= 2 /\ content[i][1] = "#" /\ content[i][2] = " "
    /\ trim(SubSeq(content[i], 3, Len(content[i]))) = title

(* no clock tick since the request in `req` arrived *)
SameDate == req.clk0 = clk

----------------------------------------------------------------------------
(* C1: a second start_week, called after a start_week that archived and     *)
(* with the archive date unchanged, writes no file, makes no commit, answers *)
(* without error that the week was already archived, and names the same      *)
(* archive key as the first answer.                                          *)
C1_SecondRolloverIsNoOp ==
  (Completed("start_week") /\ Transitioned(prev.resp) /\ prev.clk0 = clk) =>
    /\ WriteEvents = {}
    /\ CommitEvents = {}
    /\ Files = snap
    /\ AlreadyArchived(resp)
    /\ resp.subject = prev.resp.subject

(* C2: when the archive already holds a section titled "Week of <archive    *)
(* date>", start_week leaves the three files as they were, makes no commit   *)
(* and answers without error with the current This Week section.             *)
C2_ArchivedWeekShortCircuits ==
  (/\ Completed("start_week") /\ SameDate
   /\ HasSectionTitled(snap.archive, WeekOf \o ArchiveWeekDates[clk])) =>
    /\ Files = snap
    /\ CommitEvents = {}
    /\ AlreadyArchived(resp)
    /\ \E section \in { findSection(parseMarkdownSections(current), TitleThisWeek) } :
         section # NoSection /\ resp.list = section[1].content

(* C3: order of events in a start_week that is not short-circuited: the     *)
(* archive is read before any write or commit; the backup commit is made     *)
(* only when the store reported pending changes and precedes every write;    *)
(* the archive is written before current; a successful run makes the         *)
(* completion commit exactly once, after both writes; when the status check  *)
(* or the backup commit fails nothing is written and nothing is committed    *)
(* afterwards.                                                               *)
C3_RolloverEventOrder ==
  (Completed("start_week") /\ ~AlreadyArchived(resp)) =>
    /\ (WriteEvents \cup CommitEvents # {}) =>
         \E r \in EventsAt(Read("archive")) : \A j \in WriteEvents \cup CommitEvents : r < j
    /\ PreCommitEvents # {} => log[1].what[1] = "dirty"
    /\ \A i \in PreCommitEvents, j \in WriteEvents : i < j
    /\ \A i \in EventsAt(Write("archive")), j \in EventsAt(Write("current")) : i < j
    /\ Transitioned(resp) =>
         /\ Cardinality(PostCommitEvents) = 1
         /\ \A i \in PostCommitEvents, j \in WriteEvents : j < i
         /\ EventsAt(Write("archive")) # {} /\ EventsAt(Write("current")) # {}
    /\ (~log[1].ok \/ \E i \in PreCommitEvents : ~log[i].ok) =>
         /\ WriteEvents = {}
         /\ \A i \in CommitEvents : i \in PreCommitEvents

(* C4 as stated: when current lacks "This Week" or "Next Week", start_week   *)
(* answers with the error "Required sections not found in current.md",       *)
(* archive and current are unchanged and no completion commit is made.       *)
MissingRequiredSection(content) ==
  ~HasSectionTitled(content, TitleThisWeek) \/ ~HasSectionTitled(content, TitleNextWeek)

C4_MissingSectionsMessage ==
  (Completed("start_week") /\ MissingRequiredSection(snap.current)) =>
    /\ resp.isError
    /\ resp.message = "Required sections not found in current.md"
    /\ archive = snap.archive /\ current = snap.current
    /\ PostCommitEvents = {}

(* C4 amended: when current lacks "This Week" or "Next Week", start_week     *)
(* answers with an error, archive and current are unchanged and no           *)
(* completion commit is made; the error is "Required sections not found in   *)
(* current.md" unless the backup commit failed first, and then it is that    *)
(* commit's failure.                                                         *)
C4_MissingSectionsFail ==
  (Completed("start_week") /\ MissingRequiredSection(snap.current)) =>
    /\ resp.isError
    /\ IF \E i \in PreCommitEvents : ~log[i].ok
       THEN resp.message = "Command failed"
       ELSE resp.message = "Required sections not found in current.md"
    /\ archive = snap.archive /\ current = snap.current
    /\ PostCommitEvents = {}

C4_Witness ==
  /\ Completed("start_week")
  /\ HasSectionTitled(snap.current, TitleThisWeek)
  /\ ~HasSectionTitled(snap.current, TitleNextWeek)
  /\ resp.isError /\ resp.message = "Required sections not found in current.md"
  /\ \E i \in PreCommitEvents : log[i].ok

----------------------------------------------------------------------------
(* Tasks and their description blocks, as the properties speak of them *)

IsTaskLine(line) ==
  /\ Len(line) >= 6
  /\ SubSeq(line, 1, 3) = <<"-", " ", "[">>
  /\ line[4] \in {" ", "x", "-"}
  /\ SubSeq(line, 5, 6) = <<"]", " ">>

IsDescriptionLine(line) ==
  /\ Len(line) >= 2 /\ line[1] = " " /\ line[2] = " "
  /\ \E k \in 1..Len(line) : ~IsSpace(line[k])

IsBlankLine(line) == \A k \in 1..Len(line) : IsSpace(line[k])

(* the description lines directly below line i *)
DescriptionBelow(content, i) ==
  LET last == CHOOSE n \in i..Len(content) :
                /\ \A k \in (i + 1)..n : IsDescriptionLine(content[k])
                /\ (n < Len(content) => ~IsDescriptionLine(content[n + 1]))
  IN SubSeq(content, i + 1, last)

(* the task lines with a status character in `chars`, each with its description *)
RECURSIVE Blocks(_, _, _)
Blocks(content, i, chars) ==
  IF i > Len(content) THEN <<>>
  ELSE (IF IsTaskLine(content[i]) /\ content[i][4] \in chars
        THEN <<content[i]>> \o DescriptionBelow(content, i)
        ELSE <<>>) \o Blocks(content, i + 1, chars)

NonBlankLines(content) == SelectSeq(content, LAMBDA line : ~IsBlankLine(line))

TaskLines(content) == SelectSeq(content, IsTaskLine)

(* the lines without the whitespace at the end of the text they make up *)
WithoutTrailingSpace(content) ==
  [k \in 1..Len(dropBlankTail(content)) |->
     IF k = Len(dropBlankTail(content)) THEN trimEnd(content[k]) ELSE content[k]]

(* status character and text of the task lines that have a text *)
Tasks(content) ==
  LET lines == SelectSeq(content, LAMBDA line :
                 IsTaskLine(line) /\ ~IsBlankLine(SubSeq(line, 7, Len(line))))
  IN [k \in 1..Len(lines) |-> <<lines[k][4], trim(SubSeq(lines[k], 7, Len(lines[k])))>>]

FormerThisWeek == findSection(parseMarkdownSections(snap.current), TitleThisWeek)[1].content
FormerNextWeek == findSection(parseMarkdownSections(snap.current), TitleNextWeek)[1].content

----------------------------------------------------------------------------
C6_CurrentRebuilt ==
  (Completed("start_week") /\ Transitioned(resp)) =>
    LET new == parseMarkdownSections(current) IN
    /\ Len(new) = 2
    /\ new[1].title = TitleThisWeek /\ new[2].title = TitleNextWeek
    /\ new[1].startLine = 0
    /\ TaskLines(new[2].content) = <<>>
    /\ LET content == new[1].content
           n == Len(FormerNextWeek)
           kept == SubSeq(content, 1, Len(content) - n - 1)
       IN /\ Len(content) >= n + 1
          /\ SubSeq(content, Len(content) - n, Len(content) - 1) = FormerNextWeek
          /\ NonBlankLines(kept) = Blocks(FormerThisWeek, 1, {" "})
          /\ \A i \in 1..Len(kept) : IsTaskLine(kept[i]) => kept[i][4] = " "

C6_Witness ==
  /\ Completed("start_week") /\ Transitioned(resp)
  /\ Blocks(FormerThisWeek, 1, {"x"}) # <<>>
  /\ \E i \in 1..Len(FormerThisWeek) :
       /\ IsTaskLine(FormerThisWeek[i]) /\ FormerThisWeek[i][4] = " "
       /\ DescriptionBelow(FormerThisWeek, i) # <<>>
  /\ \E i \in 1..Len(FormerNextWeek) : FormerNextWeek[i] = DoneQ
  /\ \E i \in 1..Len(current) : current[i] = DoneQ

(* C7: filterTasksByCompletion puts every task line in exactly one bucket,  *)
(* finished for completed and closed, unfinished for new, keeps the order    *)
(* of the tasks in each bucket, and each task's description lines follow it  *)
(* directly in its bucket.                                                   *)
SectionContents ==
  UNION { { parseMarkdownSections(d)[i].content : i \in 1..Len(parseMarkdownSections(d)) } :
          d \in {current, snap.current, backlog, archive} }

C7_PartitionComplete ==
  \A content \in SectionContents :
    LET r == filterTasksByCompletion(content) IN
    /\ r.finished = Blocks(content, 1, {"x", "-"})
    /\ NonBlankLines(r.unfinished) = Blocks(content, 1, {" "})
    /\ Len(TaskLines(r.finished)) + Len(TaskLines(r.unfinished)) = Len(TaskLines(content))

C7_Witness ==
  /\ Completed("start_week") /\ Transitioned(resp)
  /\ LET r == filterTasksByCompletion(FormerThisWeek) IN
       /\ \E i \in 1..Len(r.finished) : IsTaskLine(r.finished[i]) /\ r.finished[i][4] = "-"
       /\ \E i \in 1..Len(r.finished) : IsDescriptionLine(r.finished[i])
       /\ \E i \in 1..Len(r.unfinished) : IsTaskLine(r.unfinished[i])

----------------------------------------------------------------------------
(* The locator, as the properties speak of it *)

ContainsIgnoringCase(text, identifier) ==
  \E k \in 0..(Len(text) - Len(identifier)) :
    \A j \in 1..Len(identifier) :
      toLowerCaseChar(text[k + j]) = toLowerCaseChar(identifier[j])

MatchesAmong(all, identifier) ==
  SelectSeq(all, LAMBDA t : ContainsIgnoringCase(t.taskText, identifier))

MatchesIn(identifier, cur, back) == MatchesAmong(findAllTasks(cur, back), identifier)

TaskOps == {"finish_task", "edit_task", "move_task"}

(* the request in `req` has been answered and was a task-level request that *)
(* went as far as resolving its identifier                                   *)
Resolved ==
  /\ pc = "idle" /\ req.op \in TaskOps
  /\ resp.message # "At least one of new_text or new_description must be provided"

(* C8: validateTaskMatch returns the match exactly when the identifier has  *)
(* one match over current and backlog; with no match it fails with at most  *)
(* three existing task texts as suggestions, or with "No tasks available"   *)
(* when there is no task at all; with several matches it fails listing every *)
(* match's text and section title.                                           *)
C8_ResolveUnique ==
  /\ \A all \in { findAllTasks(current, backlog) } :
     \A identifier \in { i \in Identifiers : ~IsBlankLine(i) } :
     \A m \in { MatchesAmong(all, identifier) } :
     \A v \in { validateTaskMatch(identifier, current, backlog) } :
          /\ v.ok <=> Len(m) = 1
          /\ Len(m) = 1 => v.value = m[1]
          /\ Len(m) = 0 =>
               /\ v.message = IF all = <<>>
                              THEN "No matching tasks found. No tasks available."
                              ELSE "No matching tasks found. Did you mean"
               /\ Len(v.list) <= 3
               /\ Len(v.list) = (IF Len(all) < 3 THEN Len(all) ELSE 3)
               /\ \A i \in 1..Len(v.list) : v.list[i] = all[i].taskText
          /\ Len(m) > 1 =>
               /\ v.message = "Multiple matches found"
               /\ v.list = [i \in 1..Len(m) |-> <<m[i].taskText, m[i].section>>]
  /\ (Resolved /\ ~IsBlankLine(req.identifier)) =>
       \A m \in { MatchesIn(req.identifier, snap.current, snap.backlog) } :
       /\ req.task # NoTask <=> Len(m) = 1
       /\ req.task # NoTask => req.task[1] = m[1]
       /\ Len(m) > 1 => resp.isError /\ resp.message = "Multiple matches found"
       /\ Len(m) = 0 => resp.isError /\ Len(resp.list) <= 3

C8_Witness ==
  /\ Resolved /\ resp.isError
  /\ resp.message = "Multiple matches found"
  /\ Len(resp.list) >= 3
  /\ \E i, j \in 1..Len(resp.list) : resp.list[i][2] # resp.list[j][2]

(* C9: findMatchingTasks fails with "Task identifier cannot be empty" for an *)
(* empty or all-whitespace identifier; otherwise it returns exactly the      *)
(* tasks of findAllTasks whose text contains the identifier ignoring letter  *)
(* case, in the same order: those of current in document order, then those   *)
(* of backlog in document order, whatever their status.                      *)
C9_FindMatching ==
  /\ \A all \in { findAllTasks(current, backlog) } :
     \A identifier \in Identifiers :
     \A r \in { findMatchingTasks(identifier, current, backlog) } :
       IF IsBlankLine(identifier)
       THEN ~r.ok /\ r.message = "Task identifier cannot be empty"
       ELSE /\ r.ok
            /\ r.value = MatchesAmong(all, identifier)
            /\ \A i, j \in 1..Len(r.value) :
                 i < j => \/ r.value[i].file = "current" /\ r.value[j].file = "backlog"
                          \/ /\ r.value[i].file = r.value[j].file
                             /\ r.value[i].lineNumber < r.value[j].lineNumber
  /\ (Resolved /\ IsBlankLine(req.identifier)) =>
       /\ resp.isError /\ resp.message = "Task identifier cannot be empty"
       /\ Files = snap

C9_Witness ==
  /\ Completed("finish_task") /\ ~resp.isError
  /\ resp.message = "Successfully marked task"
  /\ req.identifier = <<"A", "B">>
  /\ req.task[1].taskText = <<"a", "b", " ", "c">>
  /\ req.task[1].isCompleted
  /\ Len(findAllTasks(snap.current, snap.backlog)) >= 2

(* C10: every TaskMatch m of findAllTasks names, by m.lineNumber counted    *)
(* from 1 over the whole document of m.file, a task line with m's trimmed   *)
(* text and m's status, lying below the header of the section m.section;    *)
(* removeTask, updateTaskText and updateTaskDescription called with that    *)
(* line number succeed and act on that task.                                *)
HeaderAbove(doc, n) ==
  CHOOSE i \in 0..(n - 1) :
    /\ i > 0 => (Len(doc[i]) >= 2 /\ SubSeq(doc[i], 1, 2) = <<"#", " ">>)
    /\ \A k \in (i + 1)..(n - 1) : ~(Len(doc[k]) >= 2 /\ SubSeq(doc[k], 1, 2) = <<"#", " ">>)

C10_LineNumbersAreTrue ==
  /\ \A file \in {"current", "backlog"} :
       LET doc == IF file = "current" THEN current ELSE backlog
           found == findTasksInFile(file, doc)
       IN \A k \in 1..Len(found) :
            LET m == found[k]
                n == m.lineNumber
                d == IF n \in 1..Len(doc) THEN Len(DescriptionBelow(doc, n)) ELSE 0
            IN /\ m.file = file
               /\ n \in 1..Len(doc)
               /\ IsTaskLine(doc[n]) /\ Len(doc[n]) >= 7
               /\ trim(SubSeq(doc[n], 7, Len(doc[n]))) = m.taskText
               /\ m.isCompleted = (doc[n][4] = "x")
               /\ m.isClosed = (doc[n][4] = "-")
               /\ HeaderAbove(doc, n) > 0
               /\ trim(SubSeq(doc[HeaderAbove(doc, n)], 3, Len(doc[HeaderAbove(doc, n)])))
                    = m.section
               /\ removeTask(doc, n).ok
               /\ removeTask(doc, n).value
                    = SubSeq(doc, 1, n - 1) \o SubSeq(doc, n + 1 + d, Len(doc))
               /\ updateTaskText(doc, n, <<"N">>).ok
               /\ updateTaskText(doc, n, <<"N">>).value
                    = [doc EXCEPT ![n] = SubSeq(doc[n], 1, 6) \o <<"N">>]
               /\ updateTaskDescription(doc, n, << <<"f">> >>).ok
               /\ updateTaskDescription(doc, n, << <<"f">> >>).value
                    = SubSeq(doc, 1, n) \o << <<" ", " ", "f">> >>
                        \o SubSeq(doc, n + 1 + d, Len(doc))
  /\ (pc = "idle" /\ req.op \in {"edit_task", "move_task"}) =>
       resp.message \notin {"Line not found in content", "No task found at line"}

C10_Witness ==
  /\ Completed("move_task") /\ ~resp.isError
  /\ resp.message = "Successfully moved task"
  /\ snap.current[1] = NoteN
  /\ req.task[1].file = "current" /\ req.task[1].lineNumber >= 4
  /\ IsTaskLine(snap.current[req.task[1].lineNumber])
  /\ current # snap.current

----------------------------------------------------------------------------
(* The mutators' calls, as the properties speak of them *)

CallsOf(ops) == { j \in 1..Len(calls) : calls[j].op \in ops }

LineNotFound(call) == ~call.result.ok /\ call.result.message = "Line not found in content"
NotATask(call) == ~call.result.ok /\ call.result.message = "No task found at line"

(* the document the call was made on, before and behind the addressed line *)
Above(call) == SubSeq(call.before, 1, call.lineNumber - 1)
Below(call, n) == SubSeq(call.before, n + 1, Len(call.before))

(* C11: updateTaskStatus, updateTaskText and removeTask fail with "Line N not   *)
(* found in content" exactly when N is beyond the last line of the document,   *)
(* and with "No task found at line N" on every line of the document that is    *)
(* not a task line; a failing call produces no document.                       *)
C11_LineErrors ==
  \A j \in CallsOf({"updateTaskStatus", "updateTaskText", "removeTask"}) :
    /\ LineNotFound(calls[j]) <=> calls[j].lineNumber > Len(calls[j].before)
    /\ ( /\ calls[j].lineNumber <= Len(calls[j].before)
         /\ ~IsTaskLine(calls[j].before[calls[j].lineNumber]) ) => NotATask(calls[j])
    /\ ~calls[j].result.ok => calls[j].result.value = <<>>

(* the call addresses a task line of the document it was made on *)
OnTaskLine(call) ==
  /\ call.lineNumber <= Len(call.before)
  /\ IsTaskLine(call.before[call.lineNumber])

(* C12: updateTaskStatus on a task line, whatever its status, with target      *)
(* completed or closed, returns the document with the target status character  *)
(* in the brackets of that line and nothing else changed.                      *)
C12_StatusOnly ==
  \A j \in CallsOf({"updateTaskStatus"}) :
    OnTaskLine(calls[j]) =>
      /\ calls[j].result.ok
      /\ calls[j].result.value =
           [calls[j].before EXCEPT ![calls[j].lineNumber][4] = getStatusChar(calls[j].status)]

(* null, the empty string or a string of whitespace only *)
BlankDescription(description) ==
  \A k \in 1..Len(description) : IsBlankLine(description[k])

Indented(description) ==
  [k \in 1..Len(description) |-> <<" ", " ">> \o description[k]]

(* C13: updateTaskDescription on a task line removes the whole description     *)
(* block below it; a null, empty or whitespace-only description leaves the     *)
(* task without description lines, any other is put, each line behind two      *)
(* spaces, directly below the task line; all other lines stay as they are.     *)
C13_DescriptionReplaced ==
  \A j \in CallsOf({"updateTaskDescription"}) :
    OnTaskLine(calls[j]) =>
      \A old \in {DescriptionBelow(calls[j].before, calls[j].lineNumber)} :
        /\ calls[j].result.ok
        /\ calls[j].result.value =
             Above(calls[j]) \o <<calls[j].before[calls[j].lineNumber]>>
               \o (IF BlankDescription(calls[j].description) THEN <<>>
                   ELSE Indented(calls[j].description))
               \o Below(calls[j], calls[j].lineNumber + Len(old))
        /\ BlankDescription(calls[j].description) =>
             DescriptionBelow(calls[j].result.value, calls[j].lineNumber) = <<>>

(* a block of two lines replaced by another of two lines, then cleared by ' ' *)
C13_Witness ==
  /\ Len(calls) = 2
  /\ calls[1].op = "updateTaskDescription" /\ calls[2].op = "updateTaskDescription"
  /\ OnTaskLine(calls[1]) /\ calls[2].lineNumber = calls[1].lineNumber
  /\ Len(DescriptionBelow(calls[1].before, calls[1].lineNumber)) = 2
  /\ calls[1].description = << <<"g">>, <<"h">> >>
  /\ DescriptionBelow(calls[2].before, calls[2].lineNumber) = << <<" ", " ", "g">>, <<" ", " ", "h">> >>
  /\ calls[2].description = << <<" ">> >>
  /\ calls[2].result.ok /\ Len(document) = Len(calls[1].before) - 2

(* the text made of no line at all is the empty text *)
TextOf(lines) == IF lines = <<>> THEN EmptyFile ELSE lines

(* C14: removeTask on a task line returns the document without that line and   *)
(* without the description block directly below it; every other line, blank    *)
(* lines included, is still there, unchanged and in the same order.            *)
C14_TaskRemoved ==
  \A j \in CallsOf({"removeTask"}) :
    OnTaskLine(calls[j]) =>
      \A old \in {DescriptionBelow(calls[j].before, calls[j].lineNumber)} :
        /\ calls[j].result.ok
        /\ calls[j].result.value =
             TextOf(Above(calls[j]) \o Below(calls[j], calls[j].lineNumber + Len(old)))

(* a task with a description of two lines removed from between other lines *)
C14_Witness ==
  \E j \in CallsOf({"removeTask"}) :
    /\ OnTaskLine(calls[j]) /\ calls[j].result.ok
    /\ Len(DescriptionBelow(calls[j].before, calls[j].lineNumber)) = 2
    /\ calls[j].lineNumber > 1
    /\ Len(calls[j].result.value) = Len(calls[j].before) - 3
    /\ \E k \in 1..Len(calls[j].result.value) : IsBlankLine(calls[j].result.value[k])

(* the first line where document b differs from document a *)
FirstDifference(a, b) ==
  CHOOSE n \in 1..Len(b) :
    /\ n > Len(a) \/ a[n] # b[n]
    /\ \A k \in 1..(n - 1) : k <= Len(a) /\ a[k] = b[k]

RECURSIVE SkipBlankLines(_)
SkipBlankLines(lines) ==
  IF lines # <<>> /\ IsBlankLine(Head(lines)) THEN SkipBlankLines(Tail(lines)) ELSE lines

(* the document with exactly one blank line where the blank lines from line n on were *)
OneBlankAt(content, n) ==
  SubSeq(content, 1, n - 1) \o <<Blank>> \o SkipBlankLines(SubSeq(content, n, Len(content)))

(* an insertion followed by the removal of the inserted task *)
InsertThenDelete ==
  /\ Len(calls) = 2
  /\ calls[1].op = "addTaskToSection" /\ calls[1].result.ok
  /\ calls[2].op = "removeTask"
  /\ calls[2].lineNumber = FirstDifference(calls[1].before, calls[1].result.value)

(* C15: addTaskToSection followed by removeTask at the line of the inserted    *)
(* task gives back the original document, but for the blank lines that end     *)
(* the target section, of which there is then exactly one.                     *)
C15_InsertDeleteInverse ==
  InsertThenDelete =>
    /\ calls[2].result.ok
    /\ document = OneBlankAt(calls[1].before, calls[2].lineNumber)

IsHeaderLine(line) == Len(line) >= 2 /\ line[1] = "#" /\ line[2] = " "

SameIgnoringCase(a, b) ==
  /\ Len(a) = Len(b)
  /\ \A k \in 1..Len(a) : toLowerCaseChar(a[k]) = toLowerCaseChar(b[k])

(* the header lines of the sections whose title is `title`, ignoring case *)
HeadersTitled(content, title) ==
  { i \in 1..Len(content) :
      /\ IsHeaderLine(content[i])
      /\ SameIgnoringCase(trim(SubSeq(content[i], 3, Len(content[i]))), title) }

(* the last line of the section whose header is line h *)
SectionEnd(content, h) ==
  CHOOSE e \in h..Len(content) :
    /\ \A k \in (h + 1)..e : ~IsHeaderLine(content[k])
    /\ e < Len(content) => IsHeaderLine(content[e + 1])

(* the last non-blank line of that section, its header when it has none *)
LastNonBlank(content, h) ==
  CHOOSE p \in h..SectionEnd(content, h) :
    /\ p > h => ~IsBlankLine(content[p])
    /\ \A k \in (p + 1)..SectionEnd(content, h) : IsBlankLine(content[k])

CheckboxChar(status) ==
  CASE status = "completed" -> "x" [] status = "closed" -> "-" [] OTHER -> " "

(* C16: addTaskToSection fails with "Section ... not found" when no section    *)
(* title equals the requested one ignoring case; otherwise the task line with  *)
(* the checkbox of the requested status and its description lines, each behind *)
(* two spaces, stand after the last non-blank line of the first such section,  *)
(* followed by exactly one blank line and then by the next header or the end;  *)
(* all other lines are unchanged and in the same order.                        *)
C16_TaskInserted ==
  \A j \in CallsOf({"addTaskToSection"}) :
    \A hs \in {HeadersTitled(calls[j].before, calls[j].title)} :
      IF hs = {}
      THEN /\ ~calls[j].result.ok
           /\ calls[j].result.message = "Section not found"
           /\ calls[j].result.value = <<>>
      ELSE \A h \in {CHOOSE i \in hs : \A k \in hs : i <= k} :
             /\ calls[j].result.ok
             /\ calls[j].result.value =
                  SubSeq(calls[j].before, 1, LastNonBlank(calls[j].before, h))
                    \o <<TaskLineOf(CheckboxChar(calls[j].status), calls[j].text)>>
                    \o (IF calls[j].description \in {NoDescription, <<Blank>>} THEN <<>>
                        ELSE Indented(calls[j].description))
                    \o <<Blank>>
                    \o SubSeq(calls[j].before, SectionEnd(calls[j].before, h) + 1,
                              Len(calls[j].before))

(* a closed task with two description lines inserted into a section that     *)
(* ended in two blank lines and is followed by another header; and a failure *)
C16_Witness ==
  /\ Len(calls) = 2
  /\ calls[1].op = "addTaskToSection" /\ calls[1].result.ok
  /\ calls[1].status = "closed" /\ calls[1].description = << <<"g">>, <<"h">> >>
  /\ \E h \in HeadersTitled(calls[1].before, calls[1].title) :
       /\ SectionEnd(calls[1].before, h) = LastNonBlank(calls[1].before, h) + 2
       /\ SectionEnd(calls[1].before, h) < Len(calls[1].before)
  /\ calls[2].op = "addTaskToSection" /\ ~calls[2].result.ok
  /\ calls[2].title = TitleBacklog

----------------------------------------------------------------------------
(* The places of a task, as the properties speak of them *)

FileOf(destination) == IF destination = "backlog" THEN backlog ELSE current

TitleOf(destination) ==
  CASE destination = "backlog" -> TitleBacklog
    [] destination = "current_week" -> TitleThisWeek
    [] destination = "next_week" -> TitleNextWeek

(* the lines below the header of the first section of that title *)
SectionLines(content, title) ==
  LET hs == HeadersTitled(content, title)
      h == CHOOSE i \in hs : \A k \in hs : i <= k
  IN IF hs = {} THEN <<>> ELSE SubSeq(content, h + 1, SectionEnd(content, h))

(* status character and text of the last task of a place; <<>> when it has no task *)
LastTaskOf(destination) ==
  LET ts == Tasks(SectionLines(FileOf(destination), TitleOf(destination)))
  IN IF ts = <<>> THEN <<>> ELSE ts[Len(ts)]

(* text ending in " added on YYYY-MM-DD" behind at least one character *)
EndsWithDate(text) ==
  /\ Len(text) > 20
  /\ SubSeq(text, Len(text) - 19, Len(text) - 10) = AddedOn
  /\ \A k \in 1..10 :
       IF k \in {5, 8} THEN text[Len(text) - 10 + k] = "-"
       ELSE IsDigit(text[Len(text) - 10 + k])

DateOfRequest == CurrentDates[req.clk0]

Added == pc = "idle" /\ resp.op = "add_task" /\ ~resp.isError
Moved == pc = "idle" /\ resp.op = "move_task" /\ resp.message = "Successfully moved task"

(* where the task of the request was found *)
SourceOf(task) ==
  IF task.file = "backlog" THEN "backlog"
  ELSE IF task.section = TitleThisWeek THEN "current_week" ELSE "next_week"

(* C17: add_task to the backlog on date D stores "<text> added on D"; moving   *)
(* a backlog task to current_week or next_week stores its text without the     *)
(* date suffix; moving a task to the backlog stores "<text> added on D'" with  *)
(* D' the date of the move; a task added or moved to current_week or next_week *)
(* is stored with the text it had, without a date put behind it.               *)
C17_BacklogDateRoundTrip ==
  /\ Added =>
       LastTaskOf(req.destination) =
         << " ", IF req.destination = "backlog"
                 THEN req.taskText \o AddedOn \o DateOfRequest
                 ELSE req.taskText >>
  /\ Moved =>
       \A t \in {req.task[1].taskText} :
         /\ LastTaskOf(req.destination) # <<>>
         /\ LastTaskOf(req.destination)[2] =
              IF req.destination = "backlog" THEN t \o AddedOn \o DateOfRequest
              ELSE IF SourceOf(req.task[1]) = "backlog" /\ EndsWithDate(t)
              THEN SubSeq(t, 1, Len(t) - 20)
              ELSE t

(* added to the backlog on the first date, moved to current week, and moved *)
(* back to the backlog on the second date                                   *)
C17_Witness ==
  /\ budget = 0 /\ Moved
  /\ req.destination = "backlog" /\ req.clk0 = 2 /\ req.task[1].taskText = TextKW
  /\ SourceOf(req.task[1]) = "current_week"
  /\ prev.clk0 = 1 /\ prev.resp.op = "move_task"
  /\ prev.resp.message = "Successfully moved task"
  /\ prev.resp.subject = TextKW \o AddedOn \o CurrentDates[1]
  /\ LastTaskOf("backlog") = << " ", TextKW \o AddedOn \o CurrentDates[2] >>

(* the lines of a place in the files `files` *)
PlaceLines(files, destination) ==
  SectionLines(IF destination = "backlog" THEN files.backlog ELSE files.current,
               TitleOf(destination))

(* the task lines of these lines, each followed by its description lines *)
AllBlocks(lines) == Blocks(lines, 1, {" ", "x", "-"})

(* the task of the request as it stood in its file when the request arrived *)
TaskLineBefore ==
  (IF req.task[1].file = "backlog" THEN snap.backlog ELSE snap.current)[req.task[1].lineNumber]

DescriptionBefore ==
  DescriptionBelow(IF req.task[1].file = "backlog" THEN snap.backlog ELSE snap.current,
                   req.task[1].lineNumber)

(* the source section as it was, without the task of the request and its description *)
SourceWithoutTask ==
  LET doc == IF req.task[1].file = "backlog" THEN snap.backlog ELSE snap.current
      title == TitleOf(SourceOf(req.task[1]))
      hs == HeadersTitled(doc, title)
      h == CHOOSE i \in hs : \A k \in hs : i <= k
      n == req.task[1].lineNumber
  IN SubSeq(doc, h + 1, n - 1)
       \o SubSeq(doc, n + Len(DescriptionBefore) + 1, SectionEnd(doc, h))

(* the text move_task gives the task at its destination *)
TextAtDestination ==
  LET t == req.task[1].taskText IN
  IF req.destination = "backlog" THEN t \o AddedOn \o DateOfRequest
  ELSE IF SourceOf(req.task[1]) = "backlog" /\ EndsWithDate(t)
  THEN SubSeq(t, 1, Len(t) - 20)
  ELSE t

MoveCommitMessage ==
  << "Moved task:",
     req.task[1].taskText \o <<" ","f","r","o","m"," ">> \o locationName(SourceOf(req.task[1]))
       \o <<" ","t","o"," ">> \o locationName(req.destination) >>

(* C18: after a successful move_task to another place, the task and its        *)
(* description lines are gone from the source section, the task is the last    *)
(* task of the destination section with the same description lines and the     *)
(* status it had, every other task of both documents is as before, and there   *)
(* is exactly one commit "Moved task: <text> from <src> to <dst>".             *)
C18_MoveKeepsTask ==
  Moved =>
    /\ AllBlocks(PlaceLines(Files, SourceOf(req.task[1]))) = AllBlocks(SourceWithoutTask)
    /\ AllBlocks(PlaceLines(Files, req.destination)) =
         AllBlocks(PlaceLines(snap, req.destination))
           \o <<TaskLineOf(TaskLineBefore[4], TextAtDestination)>> \o DescriptionBefore
    /\ \A place \in Destinations \ {SourceOf(req.task[1]), req.destination} :
         AllBlocks(PlaceLines(Files, place)) = AllBlocks(PlaceLines(snap, place))
    /\ Cardinality(CommitEvents) = 1
    /\ \A i \in CommitEvents : log[i].what = MoveCommitMessage /\ log[i].ok

(* the one task the identifier of the request matched when the request arrived; *)
(* <<>> when it matched none or several or was blank                            *)
TaskAsked ==
  IF IsBlankLine(req.identifier) THEN <<>>
  ELSE LET m == MatchesIn(req.identifier, snap.current, snap.backlog)
       IN IF Len(m) = 1 THEN m ELSE <<>>

StatusCharAsked == IF req.status = "completed" THEN "x" ELSE "-"

(* the request asks for what is already so *)
NothingToDo ==
  /\ TaskAsked # <<>>
  /\ \/ /\ req.op = "finish_task"
        /\ (IF TaskAsked[1].file = "backlog" THEN snap.backlog
            ELSE snap.current)[TaskAsked[1].lineNumber][4] = StatusCharAsked
     \/ /\ req.op = "move_task"
        /\ \/ req.destination = "backlog" /\ TaskAsked[1].file = "backlog"
           \/ /\ req.destination # "backlog" /\ TaskAsked[1].file = "current"
              /\ TaskAsked[1].section = TitleOf(req.destination)

(* C19: finish_task on a task that already has the requested status and      *)
(* move_task to the place where the task already is leave current and        *)
(* backlog as they were, write and commit nothing, and answer without error   *)
(* that the task is already marked so or already there.                       *)
C19_NoOpRequests ==
  NothingToDo =>
    /\ pc = "idle"
    /\ current = snap.current /\ backlog = snap.backlog /\ archive = snap.archive
    /\ WriteEvents = {} /\ CommitEvents = {}
    /\ ~resp.isError /\ resp.op = req.op
    /\ resp.message = (IF req.op = "finish_task" THEN "is already marked as"
                       ELSE "is already in")
    /\ resp.subject = TaskAsked[1].taskText

(* closing a closed task that has other tasks around it *)
C19_Witness ==
  /\ NothingToDo /\ req.op = "finish_task" /\ req.status = "closed"
  /\ Len(findAllTasks(snap.current, snap.backlog)) > 2
  /\ resp.message = "is already marked as"

(* edit_task without a non-empty new_text and without a new_description *)
NothingToEdit ==
  /\ req.op = "edit_task"
  /\ req.newText = Undefined \/ req.newText = Some(<<>>)
  /\ req.newDescription = Undefined

MatchesAsked == MatchesIn(req.identifier, snap.current, snap.backlog)

(* the request fails before its write step *)
FailsEarly ==
  /\ req.op \in TaskOps
  /\ NothingToEdit \/ IsBlankLine(req.identifier) \/ Len(MatchesAsked) # 1

(* C20: a finish_task, edit_task or move_task request whose identifier is     *)
(* empty, matches no task or matches several, and an edit_task request with   *)
(* neither a non-empty new_text nor a new_description, leave current, backlog *)
(* and archive as they were, commit nothing and answer with an error response *)
(* that carries the message of the failure.                                   *)
C20_EarlyFailures ==
  FailsEarly =>
    /\ pc = "idle"
    /\ current = snap.current /\ backlog = snap.backlog /\ archive = snap.archive
    /\ WriteEvents = {} /\ CommitEvents = {}
    /\ resp.isError /\ resp.op = req.op
    /\ resp.message =
         (IF NothingToEdit
          THEN "At least one of new_text or new_description must be provided"
          ELSE IF IsBlankLine(req.identifier) THEN "Task identifier cannot be empty"
          ELSE IF Len(MatchesAsked) > 1 THEN "Multiple matches found"
          ELSE IF findAllTasks(snap.current, snap.backlog) = <<>>
          THEN "No matching tasks found. No tasks available."
          ELSE "No matching tasks found. Did you mean")

(* an edit_task with an empty new_text only, on an identifier that matches one task *)
C20_Witness ==
  /\ FailsEarly /\ NothingToEdit /\ req.newText = Some(<<>>)
  /\ ~IsBlankLine(req.identifier) /\ Len(MatchesAsked) = 1
  /\ resp.isError

----------------------------------------------------------------------------
(* Writes and checkpoint commits of the task-level tools *)

MutationOps == {"add_task", "finish_task", "edit_task", "move_task"}

(* the step in which the request in `req` gets the outcome of its commit *)
CommitStep ==
  /\ req.op \in MutationOps /\ req' = req
  /\ Len(log') = Len(log) + 1
  /\ log'[Len(log')].ev = "commit"

(* C21: in add_task, finish_task, edit_task and move_task the commit comes     *)
(* after the document write, a request that wrote and succeeded has made       *)
(* exactly one commit, and a failing commit leaves the written documents as    *)
(* they are and gives an error response made of the operation's prefix and     *)
(* the message of the commit's failure.                                        *)
C21_CommitAfterWrite ==
  [][ /\ CommitStep =>
           /\ WriteEvents # {} /\ CommitEvents = {}
           /\ current' = current /\ backlog' = backlog /\ archive' = archive
           /\ IF log'[Len(log')].ok
              THEN ~resp'.isError
              ELSE /\ resp'.isError /\ resp'.op = req.op
                   /\ resp'.message = "Command failed"
      /\ (req'.op \in MutationOps /\ pc' = "idle" /\ ~resp'.isError /\ WriteEvents' # {}) =>
           /\ Cardinality(CommitEvents') = 1
           /\ \A i \in CommitEvents', j \in WriteEvents' : j < i
    ]_vars

(* a move whose commit failed: the task has left current all the same *)
C21_Witness ==
  /\ pc = "idle" /\ req.op = "move_task" /\ resp.isError
  /\ \E i \in CommitEvents : ~log[i].ok
  /\ Cardinality(WriteEvents) = 2
  /\ current # snap.current /\ backlog # snap.backlog

(* an edit_task request with a non-empty new_text that has written its file *)
TextEdited ==
  /\ req.op = "edit_task" /\ WriteEvents # {}
  /\ req.newText # Undefined /\ req.newText # Some(<<>>)

(* the text the edited task is stored with *)
TextAfterEdit ==
  LET t == req.task[1].taskText IN
  IF req.task[1].file # "backlog" THEN req.newText[1]
  ELSE req.newText[1] \o AddedOn
         \o (IF EndsWithDate(t) THEN SubSeq(t, Len(t) - 9, Len(t)) ELSE DateOfRequest)

(* C22: edit_task with a non-empty new_text puts the new text on the line of   *)
(* the task it identified and keeps the status character; in the backlog the   *)
(* text is stored as "<new_text> added on <date>" with the date the task had,  *)
(* or the date of the request when it had none; a new_description given with   *)
(* it replaces the description block below that same line; every other line    *)
(* of the document and the whole other document stay as they were.             *)
C22_EditReplacesText ==
  TextEdited =>
    \A n \in {req.task[1].lineNumber} :
      LET inBacklog == req.task[1].file = "backlog"
          before == IF inBacklog THEN snap.backlog ELSE snap.current
          after == IF inBacklog THEN backlog ELSE current
          d == req.newDescription
      IN /\ IF inBacklog THEN current = snap.current ELSE backlog = snap.backlog
         /\ archive = snap.archive
         /\ SubSeq(after, 1, n - 1) = SubSeq(before, 1, n - 1)
         /\ after[n] = <<"-", " ", "[", before[n][4], "]", " ">> \o TextAfterEdit
         /\ SubSeq(after, n + 1, Len(after)) =
              IF d = Undefined THEN SubSeq(before, n + 1, Len(before))
              ELSE (IF BlankDescription(d[1]) THEN <<>> ELSE Indented(d[1]))
                     \o SubSeq(before, n + 1 + Len(DescriptionBefore), Len(before))

(* a dated backlog task that has a description is given a new text and a new *)
(* description on a later date, and the change is committed                  *)
C22_Witness ==
  /\ TextEdited /\ pc = "idle" /\ ~resp.isError
  /\ req.task[1].file = "backlog" /\ EndsWithDate(req.task[1].taskText)
  /\ SubSeq(req.task[1].taskText, Len(req.task[1].taskText) - 9,
            Len(req.task[1].taskText)) # DateOfRequest
  /\ req.newDescription # Undefined /\ DescriptionBefore # <<>>

TaskStatuses == {"new", "completed", "closed"}

CharOfStatus == [new |-> " ", completed |-> "x", closed |-> "-"]

(* the characters at the place of the status character in the lines of the *)
(* document, the three status characters and some that are none            *)
BracketChars ==
  { document[i][4] : i \in { k \in 1..Len(document) : Len(document[k]) >= 4 } }
    \cup {" ", "x", "-", "X", "?", "", "_"}

(* C23: each status is written as its character (' ' new, 'x' completed, '-'   *)
(* closed) and that character is read back as the same status; every other     *)
(* character is read as new; completed and closed are the finished statuses,   *)
(* new is not; the line a status has been written to is read as that status.   *)
C23_StatusCharRoundTrip ==
  /\ \A s \in TaskStatuses :
       /\ getStatusChar(s) = CharOfStatus[s]
       /\ parseStatusChar(getStatusChar(s)) = s
       /\ isFinishedStatus(s) <=> s \in {"completed", "closed"}
  /\ \A c \in BracketChars \ {"x", "-"} : parseStatusChar(c) = "new"
  /\ \A j \in CallsOf({"updateTaskStatus"}) :
       calls[j].result.ok =>
         /\ calls[j].result.value[calls[j].lineNumber][4] = CharOfStatus[calls[j].status]
         /\ parseStatusChar(calls[j].result.value[calls[j].lineNumber][4]) = calls[j].status

(* a completed task has been closed, and its line is in the document *)
C23_Witness ==
  \E j \in CallsOf({"updateTaskStatus"}) :
    /\ calls[j].result.ok /\ calls[j].status = "closed"
    /\ calls[j].before[calls[j].lineNumber][4] = "x"
    /\ calls[j].lineNumber <= Len(document)
    /\ document[calls[j].lineNumber] = calls[j].result.value[calls[j].lineNumber]
    /\ parseStatusChar(document[calls[j].lineNumber][4]) = "closed"

(* the lines of the document that start with "# " *)
HeaderLines == { i \in 1..Len(document) : IsHeaderLine(document[i]) }

(* the k-th of them from the top *)
HeaderLine(k) == CHOOSE h \in HeaderLines : Cardinality({ i \in HeaderLines : i < h }) = k - 1

(* `title` is `text` without the spaces at its two ends *)
IsTrimmed(title, text) ==
  \E a \in 1..(Len(text) + 1) :
    \E b \in (a - 1)..Len(text) :
      /\ title = SubSeq(text, a, b)
      /\ \A k \in (1..(a - 1)) \cup ((b + 1)..Len(text)) : IsSpace(text[k])
      /\ title # <<>> => ~IsSpace(title[1]) /\ ~IsSpace(title[Len(title)])

(* C24: parseMarkdownSections returns one section for each line starting with  *)
(* "# ", in the order of the lines; its title is the rest of that line without *)
(* the spaces at its ends, its content the lines behind the header up to the   *)
(* next header or the end, blank lines included, startLine the 0-based index   *)
(* of the header and endLine that of the last line of the section; lines       *)
(* before the first header are in no section, and a document without headers,  *)
(* the empty one included, has no sections.                                    *)
C24_SectionsOfDocument ==
  \A sections \in {parseMarkdownSections(document)} :
    /\ Len(sections) = Cardinality(HeaderLines)
    /\ \A k \in 1..Len(sections) :
         \A h \in {HeaderLine(k)} :
           /\ sections[k].startLine = h - 1
           /\ sections[k].endLine = SectionEnd(document, h) - 1
           /\ sections[k].content = SubSeq(document, h + 1, SectionEnd(document, h))
           /\ IsTrimmed(sections[k].title, SubSeq(document[h], 3, Len(document[h])))

(* two sections behind a line that is in none, the first with a blank line in *)
(* it, after a call that changed the document                                 *)
C24_Witness ==
  /\ Cardinality(HeaderLines) = 2 /\ 1 \notin HeaderLines
  /\ calls # <<>> /\ document # calls[1].before
  /\ \E i \in (HeaderLine(1) + 1)..(HeaderLine(2) - 1) : document[i] = Blank
  /\ Len(parseMarkdownSections(document)) = 2

(* the identifier with a space put before it, behind it, or next to one of *)
(* its spaces                                                              *)
ExtraSpaces(identifier) ==
  { <<" ">> \o identifier, identifier \o <<" ">> }
    \cup { SubSeq(identifier, 1, i) \o <<" ">> \o SubSeq(identifier, i + 1, Len(identifier)) :
             i \in { k \in 1..Len(identifier) : identifier[k] = " " } }

(* C25: identification is whitespace flexible: an identifier and the same      *)
(* identifier with extra spaces (leading, trailing, repeated) match the same   *)
(* tasks of the workspace the request arrived at, and so finish_task,          *)
(* edit_task and move_task resolve both to the same task.                      *)
C25_WhitespaceFlexible ==
  (req.op \in TaskOps /\ ~IsBlankLine(req.identifier)) =>
    \A spaced \in ExtraSpaces(req.identifier) :
      /\ findMatchingTasks(spaced, snap.current, snap.backlog)
           = findMatchingTasks(req.identifier, snap.current, snap.backlog)
      /\ validateTaskMatch(spaced, snap.current, snap.backlog).ok
           = validateTaskMatch(req.identifier, snap.current, snap.backlog).ok

(* the line of the task below which a successful call has put a description *)
DescribedLine(call) ==
  IF call.op = "updateTaskDescription" THEN call.lineNumber
  ELSE LET hs == HeadersTitled(call.before, call.title)
       IN LastNonBlank(call.before, CHOOSE i \in hs : \A k \in hs : i <= k) + 1

(* a successful insertion or description update with a non-blank description *)
Describes(call) ==
  /\ call.op \in {"addTaskToSection", "updateTaskDescription"}
  /\ call.result.ok /\ ~BlankDescription(call.description)
  /\ call.op = "updateTaskDescription" => OnTaskLine(call)

(* C26: after addTaskToSection or updateTaskDescription with a non-blank       *)
(* description, getTaskDescriptionLines started just after the task line       *)
(* returns exactly the lines of the description, each behind two spaces; a     *)
(* following removeTask on that task removes the task line and all of them, a  *)
(* following updateTaskDescription with null removes all of them.              *)
C26_ScannerReadsDescription ==
  \A j \in 1..Len(calls) :
    Describes(calls[j]) =>
      \A n \in {DescribedLine(calls[j])} :
        LET written == calls[j].result.value
            d == calls[j].description
        IN /\ getTaskDescriptionLines(written, n) = Indented(d)
           /\ (/\ j < Len(calls) /\ calls[j + 1].lineNumber = n
               /\ calls[j + 1].op = "removeTask") =>
                 /\ calls[j + 1].result.ok
                 /\ calls[j + 1].result.value =
                      TextOf(SubSeq(written, 1, n - 1)
                               \o SubSeq(written, n + Len(d) + 1, Len(written)))
           /\ (/\ j < Len(calls) /\ calls[j + 1].lineNumber = n
               /\ calls[j + 1].op = "updateTaskDescription"
               /\ calls[j + 1].description = NoDescription) =>
                 /\ calls[j + 1].result.ok
                 /\ calls[j + 1].result.value =
                      SubSeq(written, 1, n) \o SubSeq(written, n + Len(d) + 1, Len(written))

(* the task line i of these lines with its description lines *)
BlockAt(lines, i) == <<lines[i]>> \o DescriptionBelow(lines, i)

(* the lines hold the block, line after line *)
Holds(lines, block) ==
  \E k \in 0..(Len(lines) - Len(block)) : SubSeq(lines, k + 1, k + Len(block)) = block

(* the content of the last section of the archive, and of This Week of current *)
NewArchiveSection ==
  parseMarkdownSections(archive)[Len(parseMarkdownSections(archive))].content

NewThisWeek == SectionLines(current, TitleThisWeek)

(* C27: a successful rollover loses no task: every task line of the former     *)
(* This Week is, with its description lines, in the new archive section, and   *)
(* when its status is new also in the new This Week; every task line of the    *)
(* former Next Week is, with its description lines, in the new This Week.      *)
C27_NoTaskLost ==
  (Completed("start_week") /\ Transitioned(resp)) =>
    /\ \A i \in 1..Len(FormerThisWeek) :
         IsTaskLine(FormerThisWeek[i]) =>
           /\ Holds(NewArchiveSection, BlockAt(FormerThisWeek, i))
           /\ FormerThisWeek[i][4] = " " => Holds(NewThisWeek, BlockAt(FormerThisWeek, i))
    /\ \A i \in 1..Len(FormerNextWeek) :
         IsTaskLine(FormerNextWeek[i]) => Holds(NewThisWeek, BlockAt(FormerNextWeek, i))

(* a rollover of a week with a finished task, a new task that has a  *)
(* description, and a task waiting in Next Week                      *)
C27_Witness ==
  /\ Completed("start_week") /\ Transitioned(resp)
  /\ \E i \in 1..Len(FormerThisWeek) :
       IsTaskLine(FormerThisWeek[i]) /\ FormerThisWeek[i][4] \in {"x", "-"}
  /\ \E i \in 1..Len(FormerThisWeek) :
       /\ IsTaskLine(FormerThisWeek[i]) /\ FormerThisWeek[i][4] = " "
       /\ Len(BlockAt(FormerThisWeek, i)) > 1
       /\ Holds(NewThisWeek, BlockAt(FormerThisWeek, i))
  /\ \E i \in 1..Len(FormerNextWeek) : IsTaskLine(FormerNextWeek[i])

(* a move_task request that has located its task in one of the three places *)
MoveLocated ==
  /\ req.op = "move_task" /\ req.task # NoTask
  /\ req.task[1].file = "current" => req.task[1].section \in {TitleThisWeek, TitleNextWeek}

(* the task of the request stands in these lines with the text the move gives *)
(* it at its destination and the description lines it had                     *)
ArrivedIn(lines) ==
  \E i \in 1..Len(lines) :
    /\ IsTaskLine(lines[i])
    /\ SubSeq(lines[i], 7, Len(lines[i])) = TextAtDestination
    /\ DescriptionBelow(lines, i) = DescriptionBefore

(* C28: move_task never loses a task: in every state after a move_task request *)
(* has located its task, whatever the response, the task line with its         *)
(* description lines stands in the source section as it was, or the task       *)
(* stands with its description lines in the destination section.               *)
C28_MoveNeverLoses ==
  MoveLocated =>
    \/ Holds(PlaceLines(Files, SourceOf(req.task[1])), <<TaskLineBefore>> \o DescriptionBefore)
    \/ ArrivedIn(PlaceLines(Files, req.destination))

(* current has the sections This Week and Next Week, the backlog has Backlog *)
WellFormed(files) ==
  /\ HasSectionTitled(files.current, TitleThisWeek)
  /\ HasSectionTitled(files.current, TitleNextWeek)
  /\ HasSectionTitled(files.backlog, TitleBacklog)

(* C29: the tools preserve the section structure: when current had the         *)
(* sections This Week and Next Week and the backlog had Backlog as a request   *)
(* arrived, they have them in every state of that request and after it, so     *)
(* also as the next request arrives; add_task then does not fail with          *)
(* "Section not found" and start_week not with "Required sections not found".  *)
C29_SectionsPreserved ==
  WellFormed(snap) =>
    /\ WellFormed(Files)
    /\ req.op = "add_task" => resp.message # "Section not found"
    /\ req.op = "start_week" => resp.message # "Required sections not found in current.md"

(* a week rolled over in a workspace that a successful move_task or edit_task *)
(* has changed before, with tasks carried into the new week                   *)
C29_Witness ==
  /\ Completed("start_week") /\ Transitioned(resp)
  /\ prev.resp.op \in {"move_task", "edit_task"} /\ ~prev.resp.isError
  /\ WellFormed(snap) /\ WellFormed(Files)
  /\ TaskLines(NewThisWeek) # <<>>
  /\ current # snap.current

(* a step that writes current or the backlog *)
DocumentWrite == current' # current \/ backlog' # backlog

(* the step is the arrival of a finish_task, edit_task or move_task request *)
(* that locates its task in the documents the step starts from              *)
LocatesNow ==
  /\ pc = "idle" /\ req'.op \in TaskOps /\ req'.task # NoTask
  /\ snap' = Files

(* C30: with several requests in flight that interleave only at their awaits,  *)
(* every write of current or the backlog is made in the step in which its      *)
(* request located the task, so no write of another request falls in between:  *)
(* the line number addresses, in the document as the step finds it, the task   *)
(* line with the located text, which matches the identifier; finish_task and   *)
(* edit_task change that document from that line on and leave the other        *)
(* document alone; steps that continue a request after its await write none.   *)
C30_LocateAndWriteAtomic ==
  [][ DocumentWrite =>
        /\ LocatesNow
        /\ \A t \in {req'.task[1]} :
             LET doc == IF t.file = "backlog" THEN backlog ELSE current
                 written == IF t.file = "backlog" THEN backlog' ELSE current'
                 n == t.lineNumber
             IN /\ n \in 1..Len(doc) /\ IsTaskLine(doc[n])
                /\ trim(SubSeq(doc[n], 7, Len(doc[n]))) = t.taskText
                /\ includes(toLowerCase(t.taskText), toLowerCase(req'.identifier))
                /\ written # doc
                /\ req'.op # "move_task" =>
                     /\ SubSeq(written, 1, n - 1) = SubSeq(doc, 1, n - 1)
                     /\ IF t.file = "backlog" THEN current' = current ELSE backlog' = backlog
    ]_vars

(* a finish_task waits for its commit while a move_task of a task above it has *)
(* written the same document, so that the waiting request's line number no     *)
(* longer addresses its task                                                   *)
C30_Witness ==
  /\ Len(parked) = 1 /\ pc = "mt_commit"
  /\ parked[1].pc = "ft_commit"
  /\ parked[1].req.task[1].file = "current" /\ req.task[1].file = "current"
  /\ req.task[1].lineNumber < parked[1].req.task[1].lineNumber
  /\ \A n \in {parked[1].req.task[1].lineNumber} :
       n > Len(current) \/ ~IsTaskLine(current[n])

====
